---- MODULE Spec2Model ----
(***************************************************************************)
(* Recurrence engine of the calendar (RecurrenceEngine): expansion of a    *)
(* recurrence rule into event instances and the RRULE adapters.            *)
(*                                                                         *)
(* Time.  A JavaScript Date is modelled by its local wall-clock reading,   *)
(* a number of minutes since 1970-01-01T00:00 local time.  The calendar's  *)
(* form produces minute-aligned timestamps, so 23:59:59.999 (and 23:59:59) *)
(* is the last minute of its day.  The zone is a fixed offset from UTC     *)
(* (tz, minutes east of UTC): it only matters where the code parses a      *)
(* date-only string, which JavaScript reads as midnight UTC.               *)
(*                                                                         *)
(* Strings are sequences of one-character strings, so that split,          *)
(* substring, parseInt and concatenation are computed, not assumed.        *)
(***************************************************************************)
EXTENDS Integers, Sequences, FiniteSets, TLC

(***************************************************************************)
(* Calendar arithmetic of Date (proleptic Gregorian, local time).          *)
(***************************************************************************)
MinutesPerDay == 24 * 60

IsLeap(y) == (y % 4 = 0 /\ y % 100 # 0) \/ y % 400 = 0

\* number of days of month m (1..12) of year y
DaysInMonth(y, m) ==
  IF m = 2 THEN (IF IsLeap(y) THEN 29 ELSE 28)
  ELSE IF m \in {4, 6, 9, 11} THEN 30 ELSE 31

\* day number (0 = 1970-01-01) of the civil date y-m-d, m in 1..12
DaysFromCivil(y, m, d) ==
  LET yy  == IF m <= 2 THEN y - 1 ELSE y
      era == yy \div 400
      yoe == yy - era * 400
      mp  == IF m > 2 THEN m - 3 ELSE m + 9
      doy == (153 * mp + 2) \div 5 + d - 1
      doe == yoe * 365 + yoe \div 4 - yoe \div 100 + doy
  IN  era * 146097 + doe - 719468

\* civil date <<y, m, d>> of a day number
CivilFromDays(z) ==
  LET zz  == z + 719468
      era == zz \div 146097
      doe == zz - era * 146097
      yoe == (doe - doe \div 1460 + doe \div 36524 - doe \div 146096) \div 365
      doy == doe - (365 * yoe + yoe \div 4 - yoe \div 100)
      mp  == (5 * doy + 2) \div 153
      d   == doy - (153 * mp + 2) \div 5 + 1
      m   == IF mp < 10 THEN mp + 3 ELSE mp - 9
      y   == yoe + era * 400 + (IF m <= 2 THEN 1 ELSE 0)
  IN  <<y, m, d>>

DayOf(t) == t \div MinutesPerDay
TimeOfDay(t) == t % MinutesPerDay

getFullYear(t) == CivilFromDays(DayOf(t))[1]
\* 0-based month, as Date.getMonth
getMonth(t) == CivilFromDays(DayOf(t))[2] - 1
getDate(t) == CivilFromDays(DayOf(t))[3]
getHours(t) == TimeOfDay(t) \div 60
getMinutes(t) == TimeOfDay(t) % 60
\* 0 = Sunday .. 6 = Saturday; day 0 was a Thursday
getDay(t) == (DayOf(t) + 4) % 7

\* MakeDay/MakeDate of ECMAScript: year, 0-based month (any integer), day of
\* month (any integer) and time of day; out-of-range fields carry over.
MakeLocal(y, mon, d, tod) ==
  LET ym == y + mon \div 12
      mn == mon % 12
  IN  (DaysFromCivil(ym, mn + 1, 1) + d - 1) * MinutesPerDay + tod

setDate(t, d) == MakeLocal(getFullYear(t), getMonth(t), d, TimeOfDay(t))
setMonth(t, mon) == MakeLocal(getFullYear(t), mon, getDate(t), TimeOfDay(t))
setFullYear(t, y) == MakeLocal(y, getMonth(t), getDate(t), TimeOfDay(t))
\* setHours(23, 59, 59, 999): the last instant of the local day
setHoursEndOfDay(t) == DayOf(t) * MinutesPerDay + (MinutesPerDay - 1)

(***************************************************************************)
(* JavaScript values.  An optional property is <<>> when it is undefined   *)
(* (or null) and <<v>> when it holds v.  NaN is a number no computation of *)
(* the model produces otherwise.                                           *)
(***************************************************************************)
NaN == 0 - 2000000000
Undefined == <<>>
Some(v) == <<v>>
IsDefined(o) == o # <<>>
\* truthiness of an optional number: undefined, 0 and NaN are falsy
TruthyNum(o) == o # <<>> /\ o[1] # 0 /\ o[1] # NaN
\* truthiness of an optional string: undefined, null and "" are falsy
TruthyStr(o) == o # <<>> /\ o[1] # <<>>

IsDigit(c) == c \in {"0", "1", "2", "3", "4", "5", "6", "7", "8", "9"}
DigitVal(c) ==
  CASE c = "0" -> 0 [] c = "1" -> 1 [] c = "2" -> 2 [] c = "3" -> 3 [] c = "4" -> 4
    [] c = "5" -> 5 [] c = "6" -> 6 [] c = "7" -> 7 [] c = "8" -> 8 [] c = "9" -> 9
DigitChar(n) == <<"0", "1", "2", "3", "4", "5", "6", "7", "8", "9">>[n + 1]

\* new Date("YYYY-MM-DD"): a date-only string is midnight UTC of that day,
\* read here on the local clock of a zone tz minutes east of UTC; anything
\* else this model is given is an Invalid Date (time value NaN).
IsDateOnly(s) ==
  /\ Len(s) = 10
  /\ s[5] = "-" /\ s[8] = "-"
  /\ \A i \in {1, 2, 3, 4, 6, 7, 9, 10} : IsDigit(s[i])
  /\ LET y == 1000 * DigitVal(s[1]) + 100 * DigitVal(s[2]) + 10 * DigitVal(s[3]) + DigitVal(s[4])
         m == 10 * DigitVal(s[6]) + DigitVal(s[7])
         d == 10 * DigitVal(s[9]) + DigitVal(s[10])
     IN  m \in 1..12 /\ d \in 1..DaysInMonth(y, m)

NewDateFromString(s, zone) ==
  IF IsDateOnly(s)
  THEN LET y == 1000 * DigitVal(s[1]) + 100 * DigitVal(s[2]) + 10 * DigitVal(s[3]) + DigitVal(s[4])
           m == 10 * DigitVal(s[6]) + DigitVal(s[7])
           d == 10 * DigitVal(s[9]) + DigitVal(s[10])
       IN  DaysFromCivil(y, m, d) * MinutesPerDay + zone
  ELSE NaN

(***************************************************************************)
(* Strings: split, join, trim, substring, parseInt, number to string.      *)
(***************************************************************************)
MinOf(a, b) == IF a < b THEN a ELSE b

\* the index of the first c in s at or after position i, or 0
RECURSIVE IndexFrom(_, _, _)
IndexFrom(s, c, i) ==
  IF i > Len(s) THEN 0 ELSE IF s[i] = c THEN i ELSE IndexFrom(s, c, i + 1)

\* String.prototype.split(c): the pieces between the occurrences of c
RECURSIVE Split(_, _)
Split(s, c) ==
  LET i == IndexFrom(s, c, 1)
  IN  IF i = 0 THEN <<s>>
      ELSE <<SubSeq(s, 1, i - 1)>> \o Split(SubSeq(s, i + 1, Len(s)), c)

\* Array.prototype.join(sep)
RECURSIVE Join(_, _)
Join(pieces, sep) ==
  IF Len(pieces) = 0 THEN <<>>
  ELSE IF Len(pieces) = 1 THEN pieces[1]
  ELSE pieces[1] \o sep \o Join(Tail(pieces), sep)

\* String.prototype.substring(a, b) with 0-based a <= b
Substring(s, a, b) == SubSeq(s, MinOf(a, Len(s)) + 1, MinOf(b, Len(s)))

RECURSIVE TrimLeft(_)
TrimLeft(s) == IF Len(s) > 0 /\ s[1] = " " THEN TrimLeft(Tail(s)) ELSE s
RECURSIVE TrimRight(_)
TrimRight(s) ==
  IF Len(s) > 0 /\ s[Len(s)] = " " THEN TrimRight(SubSeq(s, 1, Len(s) - 1)) ELSE s
Trim(s) == TrimRight(TrimLeft(s))

\* String.prototype.replace("Z", ""): the first Z is removed
RemoveFirstZ(s) ==
  LET i == IndexFrom(s, "Z", 1)
  IN  IF i = 0 THEN s ELSE SubSeq(s, 1, i - 1) \o SubSeq(s, i + 1, Len(s))

\* the value of the longest prefix of digits of s, given the value so far
RECURSIVE DigitsValue(_, _)
DigitsValue(s, acc) ==
  IF Len(s) = 0 \/ ~IsDigit(s[1]) THEN acc
  ELSE DigitsValue(Tail(s), 10 * acc + DigitVal(s[1]))

\* parseInt(v, 10) of an optional string: leading blanks, a sign, digits;
\* NaN when no digit follows (parseInt(undefined) is NaN)
ParseInt(o) ==
  IF ~IsDefined(o) THEN NaN
  ELSE LET t    == TrimLeft(o[1])
           neg  == Len(t) > 0 /\ t[1] = "-"
           body == IF Len(t) > 0 /\ t[1] \in {"-", "+"} THEN Tail(t) ELSE t
       IN  IF Len(body) = 0 \/ ~IsDigit(body[1]) THEN NaN
           ELSE IF neg THEN 0 - DigitsValue(body, 0) ELSE DigitsValue(body, 0)

\* "" + n
RECURSIVE NatToString(_)
NatToString(n) ==
  IF n < 10 THEN <<DigitChar(n)>> ELSE NatToString(n \div 10) \o <<DigitChar(n % 10)>>
NumberToString(n) ==
  IF n = NaN THEN <<"N", "a", "N">>
  ELSE IF n < 0 THEN <<"-">> \o NatToString(0 - n) ELSE NatToString(n)

(***************************************************************************)
(* generateInstances and its helpers.                                      *)
(***************************************************************************)
VARIABLES
  pc,           \* "idle", "loop" (inside the while loop) or "done"
  op,           \* the operation that is running or has returned
  parentEvent,  \* argument of generateInstances
  startRange,   \* argument of generateInstances
  endRange,     \* argument of generateInstances
  tz,           \* the zone of the runtime, minutes east of UTC
  current,      \* local variable of generateInstances
  count,        \* local variable of generateInstances
  instances,    \* local variable and return value of generateInstances
  rule,         \* argument of toRRule
  rrule,        \* RRULE string: result of toRRule, argument of fromRRule
  rec,          \* result of fromRRule
  thrown,       \* TRUE when the operation raised instead of returning
  formatted,    \* result of formatRule (its str)
  again,        \* TRUE once the operation is called a second time, same arguments
  events,       \* state.events of the calendar; argument of exportToICS
  target,       \* the day eventsOnDate is asked about
  results,      \* result of eventsOnDate
  lines,        \* result of exportToICS, before the join
  currentModalEvent,  \* the event or instance the modal shows, or null
  editingEventId,     \* state.editingEventId
  formOpen,     \* the event form is visible
  stored,       \* localStorage item calendar_events, or null
  cloud,        \* the array last handed to CloudSync.syncToCloud
  handled,      \* what editCurrentEvent / deleteCurrentEvent found in the modal,
                \* and what confirm() answered
  currentUserId,    \* CloudSync: the signed-in user's uid, or null (db goes with it)
  isOnline,         \* CloudSync: the browser is online
  syncStatus,       \* CloudSync: "offline", "syncing", "synced" or "error"
  activeListeners,  \* CloudSync: the data types with a real-time listener attached
  debounceTimers,   \* CloudSync: the items the pending timer of "events" will push, or null
  offlineQueue,     \* CloudSync: the item lists queued while offline or signed out
  loading,          \* the promise of loadAllData is pending
  afterLoad,        \* the callbacks chained on the promise of loadAllData
  collection        \* Firestore: the documents of /userData/{uid}/events, by place in SyncIds

\* the state of the calendar application around the engine
appVars == <<events, target, results, lines, currentModalEvent, editingEventId,
             formOpen, stored, cloud, handled>>

\* the state of CloudSync, of the promise it waits for and of Firestore
syncVars == <<currentUserId, isOnline, syncStatus, activeListeners, debounceTimers,
              offlineQueue, loading, afterLoad, collection>>

vars == <<pc, op, parentEvent, startRange, endRange, tz, current, count,
          instances, rule, rrule, rec, thrown, formatted, again, appVars, syncVars>>

maxInstances == 1000

\* indexOf(x) !== -1
Includes(seq, x) == \E i \in 1..Len(seq) : seq[i] = x

\* v || d for a string v: the empty string is falsy
OrString(v, d) == IF v = <<>> THEN d ELSE v

\* v || d for a boolean v
OrBoolean(v, d) == IF v THEN v ELSE d

\* v || d for an array v: every array is truthy, the empty one too
OrArray(v, d) == IF v \in Seq(Int) THEN v ELSE d

\* "-instance-"
InstanceInfix == <<"-", "i", "n", "s", "t", "a", "n", "c", "e", "-">>

\* mutant: ordinals start at 1
createInstanceOneBased(parent, date, duration, index) ==
  [ id       |-> parent.id \o InstanceInfix \o NumberToString(index + 1),
    parentId |-> parent.id,
    title    |-> parent.title,
    start    |-> date,
    end      |-> IF duration > 0 THEN Some(date + duration) ELSE Undefined,
    allDay   |-> OrBoolean(parent.allDay, FALSE),
    location |-> OrString(parent.location, <<>>),
    description |-> OrString(parent.description, <<>>),
    color    |-> OrString(parent.color, <<>>),
    reminders |-> OrArray(parent.reminders, <<>>),
    isRecurringInstance |-> TRUE ]

\* mutant: the instance gets fresh display fields and ends when it starts
createInstanceBlank(parent, date, duration, index) ==
  [ id       |-> parent.id \o InstanceInfix \o NumberToString(index),
    parentId |-> parent.id,
    title    |-> parent.title,
    start    |-> date,
    end      |-> IF duration > 0 THEN Some(date) ELSE Undefined,
    allDay   |-> FALSE,
    location |-> <<>>,
    description |-> <<>>,
    color    |-> <<>>,
    reminders |-> <<>>,
    isRecurringInstance |-> TRUE ]

createInstance(parent, date, duration, index) ==
  [ id       |-> parent.id \o InstanceInfix \o NumberToString(index),
    parentId |-> parent.id,
    title    |-> parent.title,
    start    |-> date,
    end      |-> IF duration > 0 THEN Some(date + duration) ELSE Undefined,
    allDay   |-> OrBoolean(parent.allDay, FALSE),
    location |-> OrString(parent.location, <<>>),
    description |-> OrString(parent.description, <<>>),
    color    |-> OrString(parent.color, <<>>),
    reminders |-> OrArray(parent.reminders, <<>>),
    isRecurringInstance |-> TRUE ]

\* the first i in 1..7 (from i on) whose day is in daysOfWeek, or 0 if none;
\* weeksDiff % interval === 0 || i <= 7 is how the code accepts it
RECURSIVE NextMatchingOffset(_, _, _, _, _)
NextMatchingOffset(cur, days, interval, originalStart, i) ==
  IF i > 7 THEN 0
  ELSE LET testDate  == setDate(cur, getDate(cur) + i)
           weeksDiff == (testDate - originalStart) \div (7 * MinutesPerDay)
       IN  IF Includes(days, getDay(testDate)) /\ (i <= 7 \/ weeksDiff % interval = 0)
           THEN i
           ELSE NextMatchingOffset(cur, days, interval, originalStart, i + 1)

\* mutant: a weekly rule always steps whole weeks, weekday set or not
getNextDateWholeWeeks(cur, r, originalStart) ==
  LET interval == IF TruthyNum(r.interval) THEN r.interval[1] ELSE 1
  IN  CASE r.frequency = "daily" -> setDate(cur, getDate(cur) + interval)
        [] r.frequency = "weekly" -> setDate(cur, getDate(cur) + 7 * interval)
        [] r.frequency = "monthly" ->
             LET next      == setMonth(cur, getMonth(cur) + interval)
                 targetDay == getDate(originalStart)
                 maxDay    == DaysInMonth(getFullYear(next), getMonth(next) + 1)
             IN  setDate(next, IF targetDay < maxDay THEN targetDay ELSE maxDay)
        [] r.frequency = "yearly" -> setFullYear(cur, getFullYear(cur) + interval)
        [] OTHER -> setDate(cur, getDate(cur) + 1)

\* mutant: a daily rule steps one day whatever its interval
getNextDateDailyByOne(cur, r, originalStart) ==
  LET interval == IF TruthyNum(r.interval) THEN r.interval[1] ELSE 1
  IN  CASE r.frequency = "daily" -> setDate(cur, getDate(cur) + 1)
        [] r.frequency = "weekly" ->
             IF IsDefined(r.daysOfWeek) /\ Len(r.daysOfWeek[1]) > 0
             THEN LET i == NextMatchingOffset(cur, r.daysOfWeek[1], interval, originalStart, 1)
                  IN  IF i # 0 THEN setDate(cur, getDate(cur) + i)
                      ELSE setDate(cur, getDate(cur) + 7 * interval)
             ELSE setDate(cur, getDate(cur) + 7 * interval)
        [] r.frequency = "monthly" ->
             LET next      == setMonth(cur, getMonth(cur) + interval)
                 targetDay == getDate(originalStart)
                 maxDay    == DaysInMonth(getFullYear(next), getMonth(next) + 1)
             IN  setDate(next, IF targetDay < maxDay THEN targetDay ELSE maxDay)
        [] r.frequency = "yearly" -> setFullYear(cur, getFullYear(cur) + interval)
        [] OTHER -> setDate(cur, getDate(cur) + 1)

getNextDate(cur, r, originalStart) ==
  LET interval == IF TruthyNum(r.interval) THEN r.interval[1] ELSE 1
  IN  CASE r.frequency = "daily" -> setDate(cur, getDate(cur) + interval)
        [] r.frequency = "weekly" ->
             IF IsDefined(r.daysOfWeek) /\ Len(r.daysOfWeek[1]) > 0
             THEN LET i == NextMatchingOffset(cur, r.daysOfWeek[1], interval, originalStart, 1)
                  IN  IF i # 0 THEN setDate(cur, getDate(cur) + i)
                      ELSE setDate(cur, getDate(cur) + 7 * interval)
             ELSE setDate(cur, getDate(cur) + 7 * interval)
        [] r.frequency = "monthly" ->
             LET next      == setMonth(cur, getMonth(cur) + interval)
                 targetDay == getDate(originalStart)
                 maxDay    == DaysInMonth(getFullYear(next), getMonth(next) + 1)
             IN  setDate(next, IF targetDay < maxDay THEN targetDay ELSE maxDay)
        [] r.frequency = "yearly" -> setFullYear(cur, getFullYear(cur) + interval)
        [] OTHER -> setDate(cur, getDate(cur) + 1)

\* mutant: only a missing rule returns at once
NoRecurrenceMissingOnly(parent) == ~IsDefined(parent.recurrence)

\* !parentEvent.recurrence || parentEvent.recurrence.frequency === "never"
NoRecurrence(parent) ==
  ~IsDefined(parent.recurrence) \/ parent.recurrence[1].frequency = "never"

\* locals of generateInstances that are fixed by its arguments
Duration(parent) == IF IsDefined(parent.end) THEN parent.end[1] - parent.start ELSE 0

RecEnd(r, zone) ==
  IF r.endCondition = "on" /\ TruthyStr(r.endDate)
  THEN LET d == NewDateFromString(r.endDate[1], zone)
       IN  Some(IF d = NaN THEN NaN ELSE setHoursEndOfDay(d))
  ELSE Undefined

RecCount(r) ==
  IF r.endCondition = "after" /\ TruthyNum(r.endCount) THEN r.endCount ELSE Undefined

\* current > recEnd; every comparison with an Invalid Date is false
AfterRecEnd(cur, recEnd) == IsDefined(recEnd) /\ recEnd[1] # NaN /\ cur > recEnd[1]

\* mutant: the loop without its safety limit
LoopConditionNoCap(cur, cnt, rangeEnd) == cur <= rangeEnd

\* while (current <= endRange && count < maxInstances)
LoopCondition(cur, cnt, rangeEnd) == cur <= rangeEnd /\ cnt < maxInstances

\* mutant: the count test is off by one
LoopBreakCountOffByOne(cur, cnt, r, zone) ==
  \/ AfterRecEnd(cur, RecEnd(r, zone))
  \/ (IsDefined(RecCount(r)) /\ cnt > RecCount(r)[1])

\* the two break statements at the top of the loop body
LoopBreak(cur, cnt, r, zone) ==
  \/ AfterRecEnd(cur, RecEnd(r, zone))
  \/ (IsDefined(RecCount(r)) /\ cnt >= RecCount(r)[1])

\* mutant: only an occurrence that starts inside the window is kept
InVisibleRangeStartOnly(cur, duration, rangeStart) == cur >= rangeStart

\* current >= startRange || (duration > 0 && current + duration >= startRange)
InVisibleRange(cur, duration, rangeStart) ==
  cur >= rangeStart \/ (duration > 0 /\ cur + duration >= rangeStart)

\* the weekday filter of the loop body
DayMatches(cur, r) ==
  IF r.frequency = "weekly" /\ IsDefined(r.daysOfWeek) /\ Len(r.daysOfWeek[1]) > 0
  THEN Includes(r.daysOfWeek[1], getDay(cur))
  ELSE TRUE

\* the rule of an event that does not repeat: { frequency: "never" }
NeverRule ==
  [ frequency |-> "never", interval |-> Undefined, daysOfWeek |-> Undefined,
    endCondition |-> "undefined", endCount |-> Undefined, endDate |-> Undefined ]

(***************************************************************************)
(* toRRule, fromRRule, formatICSDate, parseICSDate.                        *)
(***************************************************************************)
\* pad of formatICSDate: n < 10 ? "0" + n : "" + n
pad(n) == IF n # NaN /\ n < 10 THEN <<"0">> \o NumberToString(n) ELSE NumberToString(n)

\* d is a local time, or NaN for an Invalid Date; seconds are always 0
formatICSDate(d) ==
  IF d = NaN
  THEN NumberToString(NaN) \o pad(NaN) \o pad(NaN) \o <<"T">> \o pad(NaN) \o pad(NaN) \o pad(NaN)
  ELSE NumberToString(getFullYear(d)) \o pad(getMonth(d) + 1) \o pad(getDate(d))
       \o <<"T">> \o pad(getHours(d)) \o pad(getMinutes(d)) \o pad(0)

\* an optional string in, an optional string out (null when !str)
parseICSDate(o) ==
  IF ~TruthyStr(o) THEN Undefined
  ELSE LET str == RemoveFirstZ(o[1])
           y   == ParseInt(Some(Substring(str, 0, 4)))
           mm  == ParseInt(Some(Substring(str, 4, 6)))
           \* m + 1 where m = parseInt(...) - 1
           m1  == IF mm = NaN THEN NaN ELSE mm
           d   == ParseInt(Some(Substring(str, 6, 8)))
       IN  Some( NumberToString(y) \o <<"-">>
                 \o (IF m1 # NaN /\ m1 < 10 THEN <<"0">> ELSE <<>>) \o NumberToString(m1)
                 \o <<"-">>
                 \o (IF d # NaN /\ d < 10 THEN <<"0">> ELSE <<>>) \o NumberToString(d) )

FreqToken(f) ==
  CASE f = "daily" -> <<"D", "A", "I", "L", "Y">> [] f = "weekly" -> <<"W", "E", "E", "K", "L", "Y">>
    [] f = "monthly" -> <<"M", "O", "N", "T", "H", "L", "Y">> [] f = "yearly" -> <<"Y", "E", "A", "R", "L", "Y">>
    [] OTHER -> <<"D", "A", "I", "L", "Y">>

\* dayMap[d] of toRRule; join writes undefined as ""
DayCode(d) ==
  IF d \in 0..6
  THEN <<<<"S", "U">>, <<"M", "O">>, <<"T", "U">>, <<"W", "E">>, <<"T", "H">>, <<"F", "R">>, <<"S", "A">>>>[d + 1]
  ELSE <<>>

\* names every object literal answers to, as dayMap and freqMap do: the
\* members inherited from Object.prototype (three of them)
ObjectMembers ==
  { <<"v", "a", "l", "u", "e", "O", "f">>,
    <<"t", "o", "S", "t", "r", "i", "n", "g">>,
    <<"c", "o", "n", "s", "t", "r", "u", "c", "t", "o", "r">> }

\* what such a lookup returns: a function, which is neither undefined nor a
\* number nor falsy
Inherited == NaN - 1

\* dayMap[token] of fromRRule: <<n>>, or <<>> for undefined
DayNumber(token) ==
  CASE token \in ObjectMembers -> Some(Inherited) [] token = <<"S", "U">> -> Some(0) [] token = <<"M", "O">> -> Some(1) [] token = <<"T", "U">> -> Some(2)
    [] token = <<"W", "E">> -> Some(3) [] token = <<"T", "H">> -> Some(4) [] token = <<"F", "R">> -> Some(5)
    [] token = <<"S", "A">> -> Some(6) [] OTHER -> Undefined

\* mutant: the weekdays are written before the interval
toRRuleByDayFirst(o, zone) ==
  IF ~IsDefined(o) \/ o[1].frequency = "never" THEN <<>>
  ELSE LET r == o[1]
           freq == <<<<"F", "R", "E", "Q", "=">> \o FreqToken(r.frequency)>>
           interval ==
             IF TruthyNum(r.interval) /\ r.interval[1] > 1
             THEN <<<<"I", "N", "T", "E", "R", "V", "A", "L", "=">> \o NumberToString(r.interval[1])>> ELSE <<>>
           byday ==
             IF r.frequency = "weekly" /\ IsDefined(r.daysOfWeek) /\ Len(r.daysOfWeek[1]) > 0
             THEN <<<<"B", "Y", "D", "A", "Y", "=">> \o Join([i \in 1..Len(r.daysOfWeek[1]) |-> DayCode(r.daysOfWeek[1][i])], <<",">>)>>
             ELSE <<>>
           end ==
             IF r.endCondition = "after" /\ TruthyNum(r.endCount)
             THEN <<<<"C", "O", "U", "N", "T", "=">> \o NumberToString(r.endCount[1])>>
             ELSE IF r.endCondition = "on" /\ TruthyStr(r.endDate)
             THEN <<<<"U", "N", "T", "I", "L", "=">> \o formatICSDate(NewDateFromString(r.endDate[1], zone))>>
             ELSE <<>>
       IN  Join(freq \o byday \o interval \o end, <<";">>)

\* an optional rule and the zone in, a string out
toRRule(o, zone) ==
  IF ~IsDefined(o) \/ o[1].frequency = "never" THEN <<>>
  ELSE LET r == o[1]
           freq == <<<<"F", "R", "E", "Q", "=">> \o FreqToken(r.frequency)>>
           interval ==
             IF TruthyNum(r.interval) /\ r.interval[1] > 1
             THEN <<<<"I", "N", "T", "E", "R", "V", "A", "L", "=">> \o NumberToString(r.interval[1])>> ELSE <<>>
           byday ==
             IF r.frequency = "weekly" /\ IsDefined(r.daysOfWeek) /\ Len(r.daysOfWeek[1]) > 0
             THEN <<<<"B", "Y", "D", "A", "Y", "=">> \o Join([i \in 1..Len(r.daysOfWeek[1]) |-> DayCode(r.daysOfWeek[1][i])], <<",">>)>>
             ELSE <<>>
           end ==
             IF r.endCondition = "after" /\ TruthyNum(r.endCount)
             THEN <<<<"C", "O", "U", "N", "T", "=">> \o NumberToString(r.endCount[1])>>
             ELSE IF r.endCondition = "on" /\ TruthyStr(r.endDate)
             THEN <<<<"U", "N", "T", "I", "L", "=">> \o formatICSDate(NewDateFromString(r.endDate[1], zone))>>
             ELSE <<>>
       IN  Join(freq \o interval \o byday \o end, <<";">>)

\* dayNames[d] of formatRule; join writes undefined as ""
DayName(d) ==
  IF d \in 0..6
  THEN <<<<"S", "u", "n">>, <<"M", "o", "n">>, <<"T", "u", "e">>,
         <<"W", "e", "d">>, <<"T", "h", "u">>, <<"F", "r", "i">>,
         <<"S", "a", "t">>>>[d + 1]
  ELSE <<>>

\* mutant: the number is written for interval 1 too
formatRuleAlwaysNumbered(o) ==
  IF ~IsDefined(o) \/ o[1].frequency = "never" THEN <<>>
  ELSE LET r == o[1]
           interval == IF TruthyNum(r.interval) THEN r.interval[1] ELSE 1
           head ==
             CASE r.frequency = "daily" ->
                  IF interval = 1 THEN <<"E", "v", "e", "r", "y", " ">> \o NumberToString(interval) \o <<" ", "d", "a", "y", "s">>
                  ELSE <<"E", "v", "e", "r", "y", " ">> \o NumberToString(interval) \o <<" ", "d", "a", "y", "s">>
               [] r.frequency = "weekly" ->
                  IF interval = 1 THEN <<"E", "v", "e", "r", "y", " ">> \o NumberToString(interval) \o <<" ", "w", "e", "e", "k", "s">>
                  ELSE <<"E", "v", "e", "r", "y", " ">> \o NumberToString(interval) \o <<" ", "w", "e", "e", "k", "s">>
               [] r.frequency = "monthly" ->
                  IF interval = 1 THEN <<"E", "v", "e", "r", "y", " ">> \o NumberToString(interval) \o <<" ", "m", "o", "n", "t", "h", "s">>
                  ELSE <<"E", "v", "e", "r", "y", " ">> \o NumberToString(interval) \o <<" ", "m", "o", "n", "t", "h", "s">>
               [] r.frequency = "yearly" ->
                  IF interval = 1 THEN <<"E", "v", "e", "r", "y", " ">> \o NumberToString(interval) \o <<" ", "y", "e", "a", "r", "s">>
                  ELSE <<"E", "v", "e", "r", "y", " ">> \o NumberToString(interval) \o <<" ", "y", "e", "a", "r", "s">>
               [] OTHER -> <<>>
           days ==
             IF r.frequency = "weekly" /\ IsDefined(r.daysOfWeek) /\ Len(r.daysOfWeek[1]) > 0
             THEN <<" ", "o", "n", " ">>
                  \o Join([i \in 1..Len(r.daysOfWeek[1]) |-> DayName(r.daysOfWeek[1][i])], <<",", " ">>)
             ELSE <<>>
           end ==
             IF r.endCondition = "after" /\ TruthyNum(r.endCount)
             THEN <<",", " ">> \o NumberToString(r.endCount[1]) \o <<" ", "t", "i", "m", "e", "s">>
             ELSE IF r.endCondition = "on" /\ TruthyStr(r.endDate)
             THEN <<",", " ", "u", "n", "t", "i", "l", " ">> \o r.endDate[1]
             ELSE <<>>
       IN  head \o days \o end

\* an optional rule in, a string out
formatRule(o) ==
  IF ~IsDefined(o) \/ o[1].frequency = "never" THEN <<>>
  ELSE LET r == o[1]
           interval == IF TruthyNum(r.interval) THEN r.interval[1] ELSE 1
           head ==
             CASE r.frequency = "daily" ->
                  IF interval = 1 THEN <<"E", "v", "e", "r", "y", " ", "d", "a", "y">>
                  ELSE <<"E", "v", "e", "r", "y", " ">> \o NumberToString(interval) \o <<" ", "d", "a", "y", "s">>
               [] r.frequency = "weekly" ->
                  IF interval = 1 THEN <<"E", "v", "e", "r", "y", " ", "w", "e", "e", "k">>
                  ELSE <<"E", "v", "e", "r", "y", " ">> \o NumberToString(interval) \o <<" ", "w", "e", "e", "k", "s">>
               [] r.frequency = "monthly" ->
                  IF interval = 1 THEN <<"E", "v", "e", "r", "y", " ", "m", "o", "n", "t", "h">>
                  ELSE <<"E", "v", "e", "r", "y", " ">> \o NumberToString(interval) \o <<" ", "m", "o", "n", "t", "h", "s">>
               [] r.frequency = "yearly" ->
                  IF interval = 1 THEN <<"E", "v", "e", "r", "y", " ", "y", "e", "a", "r">>
                  ELSE <<"E", "v", "e", "r", "y", " ">> \o NumberToString(interval) \o <<" ", "y", "e", "a", "r", "s">>
               [] OTHER -> <<>>
           days ==
             IF r.frequency = "weekly" /\ IsDefined(r.daysOfWeek) /\ Len(r.daysOfWeek[1]) > 0
             THEN <<" ", "o", "n", " ">>
                  \o Join([i \in 1..Len(r.daysOfWeek[1]) |-> DayName(r.daysOfWeek[1][i])], <<",", " ">>)
             ELSE <<>>
           end ==
             IF r.endCondition = "after" /\ TruthyNum(r.endCount)
             THEN <<",", " ">> \o NumberToString(r.endCount[1]) \o <<" ", "t", "i", "m", "e", "s">>
             ELSE IF r.endCondition = "on" /\ TruthyStr(r.endDate)
             THEN <<",", " ", "u", "n", "t", "i", "l", " ">> \o r.endDate[1]
             ELSE <<>>
       IN  head \o days \o end

\* the rule fromRRule starts from
EmptyParsedRule ==
  [ frequency |-> "never", interval |-> Some(1), daysOfWeek |-> Undefined,
    endCondition |-> "never", endCount |-> Undefined, endDate |-> Undefined ]

FreqName(o) ==
  IF ~IsDefined(o) THEN "daily"
  ELSE CASE o[1] \in ObjectMembers -> "[inherited function]" [] o[1] = <<"D", "A", "I", "L", "Y">> -> "daily" [] o[1] = <<"W", "E", "E", "K", "L", "Y">> -> "weekly"
         [] o[1] = <<"M", "O", "N", "T", "H", "L", "Y">> -> "monthly" [] o[1] = <<"Y", "E", "A", "R", "L", "Y">> -> "yearly"
         [] OTHER -> "daily"

\* val.split(",").map(d => dayMap[d.trim()]).filter(d => d !== undefined)
RECURSIVE DayNumbers(_)
DayNumbers(tokens) ==
  IF Len(tokens) = 0 THEN <<>>
  ELSE DayNumber(Trim(tokens[1])) \o DayNumbers(Tail(tokens))

\* the body of the forEach callback: st is [rec, thrown]
ParsePart(st, part) ==
  LET kv  == Split(part, "=")
      key == kv[1]
      val == IF Len(kv) >= 2 THEN Some(kv[2]) ELSE Undefined
  IN  IF st.thrown THEN st
      ELSE CASE key = <<"F", "R", "E", "Q">> -> [st EXCEPT !.rec.frequency = FreqName(val)]
             [] key = <<"I", "N", "T", "E", "R", "V", "A", "L">> ->
                  [st EXCEPT !.rec.interval =
                     Some(IF ParseInt(val) \in {NaN, 0} THEN 1 ELSE ParseInt(val))]
             [] key = <<"B", "Y", "D", "A", "Y">> ->
                  IF ~IsDefined(val) THEN [st EXCEPT !.thrown = TRUE]
                  ELSE [st EXCEPT !.rec.daysOfWeek = Some(DayNumbers(Split(val[1], ",")))]
             [] key = <<"C", "O", "U", "N", "T">> ->
                  [st EXCEPT !.rec.endCondition = "after", !.rec.endCount = Some(ParseInt(val))]
             [] key = <<"U", "N", "T", "I", "L">> ->
                  [st EXCEPT !.rec.endCondition = "on", !.rec.endDate = parseICSDate(val)]
             [] OTHER -> st

RECURSIVE ParseParts(_, _)
ParseParts(st, parts) ==
  IF Len(parts) = 0 THEN st ELSE ParseParts(ParsePart(st, parts[1]), Tail(parts))

\* [rec |-> the rule returned, thrown |-> TRUE when a TypeError was raised]
fromRRule(str) ==
  IF Len(str) = 0 THEN [rec |-> NeverRule, thrown |-> FALSE]
  ELSE ParseParts([rec |-> EmptyParsedRule, thrown |-> FALSE], Split(str, ";"))

(***************************************************************************)
(* ICSParser.exportToICS and the helpers it calls.                         *)
(***************************************************************************)
\* ev.isRecurringInstance: only instances carry the flag
IsRecurringInstance(ev) == "isRecurringInstance" \in DOMAIN ev /\ ev.isRecurringInstance

\* sanitizeICS: backslash, semicolon, comma and newline are escaped
RECURSIVE sanitizeICS(_)
sanitizeICS(s) ==
  IF Len(s) = 0 THEN <<>>
  ELSE ( CASE s[1] = "\\" -> <<"\\", "\\">>
           [] s[1] = ";" -> <<"\\", ";">>
           [] s[1] = "," -> <<"\\", ",">>
           [] s[1] = "\n" -> <<"\\", "n">>
           [] OTHER -> <<s[1]>> )
       \o sanitizeICS(Tail(s))

\* YYYYMMDDTHHmmss of a local time; the model's times have no seconds
formatICSDateTime(d) ==
  NumberToString(getFullYear(d)) \o pad(getMonth(d) + 1) \o pad(getDate(d))
  \o <<"T">> \o pad(getHours(d)) \o pad(getMinutes(d)) \o pad(0)

\* YYYYMMDD
formatICSDateOnly(d) ==
  NumberToString(getFullYear(d)) \o pad(getMonth(d) + 1) \o pad(getDate(d))

\* the VALARM block of one reminder
AlarmLines(minutes) ==
  << <<"B", "E", "G", "I", "N", ":", "V", "A", "L", "A", "R", "M">>,
     <<"T", "R", "I", "G", "G", "E", "R", ":", "-", "P", "T">> \o NumberToString(minutes) \o <<"M">>,
     <<"A", "C", "T", "I", "O", "N", ":", "D", "I", "S", "P", "L", "A", "Y">>,
     <<"D", "E", "S", "C", "R", "I", "P", "T", "I", "O", "N", ":", "R", "e", "m", "i", "n", "d", "e", "r">>,
     <<"E", "N", "D", ":", "V", "A", "L", "A", "R", "M">> >>

RECURSIVE AllAlarmLines(_)
AllAlarmLines(reminders) ==
  IF Len(reminders) = 0 THEN <<>>
  ELSE AlarmLines(reminders[1]) \o AllAlarmLines(Tail(reminders))

\* mutant: the RRULE line is written for every event that has a rule
RecurrenceLinesAnyRule(ev, zone) ==
  IF IsDefined(ev.recurrence)
  THEN << <<"R", "R", "U", "L", "E", ":">> \o toRRule(ev.recurrence, zone) >>
  ELSE <<>>

\* the "Recurrence rule" step of the forEach callback
RecurrenceLines(ev, zone) ==
  IF IsDefined(ev.recurrence) /\ ev.recurrence[1].frequency # "never"
  THEN IF toRRule(ev.recurrence, zone) # <<>>
       THEN << <<"R", "R", "U", "L", "E", ":">> \o toRRule(ev.recurrence, zone) >>
       ELSE <<>>
  ELSE <<>>

\* the lines the forEach callback of exportToICS pushes for one event
EventLines(ev, now, zone) ==
  IF IsRecurringInstance(ev) THEN <<>>
  ELSE << <<"B", "E", "G", "I", "N", ":", "V", "E", "V", "E", "N", "T">>,
          <<"U", "I", "D", ":">> \o sanitizeICS(ev.id),
          <<"S", "U", "M", "M", "A", "R", "Y", ":">> \o sanitizeICS(OrString(ev.title, <<"U", "n", "t", "i", "t", "l", "e", "d">>)) >>
       \o ( IF ev.allDay
            THEN << <<"D", "T", "S", "T", "A", "R", "T", ";", "V", "A", "L", "U", "E", "=", "D", "A", "T", "E", ":">> \o formatICSDateOnly(ev.start) >>
                 \o ( IF IsDefined(ev.end)
                      THEN << <<"D", "T", "E", "N", "D", ";", "V", "A", "L", "U", "E", "=", "D", "A", "T", "E", ":">> \o formatICSDateOnly(ev.end[1]) >>
                      ELSE <<>> )
            ELSE << <<"D", "T", "S", "T", "A", "R", "T", ":">> \o formatICSDateTime(ev.start) >>
                 \o ( IF IsDefined(ev.end)
                      THEN << <<"D", "T", "E", "N", "D", ":">> \o formatICSDateTime(ev.end[1]) >>
                      ELSE <<>> ) )
       \o ( IF ev.description # <<>>
            THEN << <<"D", "E", "S", "C", "R", "I", "P", "T", "I", "O", "N", ":">> \o sanitizeICS(ev.description) >> ELSE <<>> )
       \o ( IF ev.location # <<>>
            THEN << <<"L", "O", "C", "A", "T", "I", "O", "N", ":">> \o sanitizeICS(ev.location) >> ELSE <<>> )
       \o RecurrenceLines(ev, zone)
       \o AllAlarmLines(ev.reminders)
       \o << <<"D", "T", "S", "T", "A", "M", "P", ":">> \o formatICSDateTime(now), <<"E", "N", "D", ":", "V", "E", "V", "E", "N", "T">> >>

RECURSIVE AllEventLines(_, _, _)
AllEventLines(evs, now, zone) ==
  IF Len(evs) = 0 THEN <<>>
  ELSE EventLines(evs[1], now, zone) \o AllEventLines(Tail(evs), now, zone)

\* exportToICS(events) at time now: the lines it joins with CRLF
exportToICS(evs, now, zone) ==
  << <<"B", "E", "G", "I", "N", ":", "V", "C", "A", "L", "E", "N", "D", "A", "R">>, <<"V", "E", "R", "S", "I", "O", "N", ":", "2", ".", "0">>,
     <<"P", "R", "O", "D", "I", "D", ":", "-", "/", "/", "C", "a", "l", "e", "n", "d", "a", "r", " ", "A", "p", "p", "/", "/", "E", "N">>,
     <<"C", "A", "L", "S", "C", "A", "L", "E", ":", "G", "R", "E", "G", "O", "R", "I", "A", "N">>, <<"M", "E", "T", "H", "O", "D", ":", "P", "U", "B", "L", "I", "S", "H">> >>
  \o AllEventLines(evs, now, zone)
  \o << <<"E", "N", "D", ":", "V", "C", "A", "L", "E", "N", "D", "A", "R">> >>

(***************************************************************************)
(* eventsOnDate of the calendar, with generateInstances as it returns.     *)
(***************************************************************************)
\* new Date(y, m, d, 0, 0, 0) and new Date(y, m, d, 23, 59, 59), to the minute
RangeStartAt(day) == day * MinutesPerDay
RangeEndAt(day) == day * MinutesPerDay + (MinutesPerDay - 1)

\* the while loop of generateInstances from the state (cur, cnt, acc) on
RECURSIVE GenerateFrom(_, _, _, _, _, _, _)
GenerateFrom(parent, cur, cnt, acc, rangeStart, rangeEnd, zone) ==
  IF \/ ~LoopCondition(cur, cnt, rangeEnd)
     \/ LoopBreak(cur, cnt, parent.recurrence[1], zone)
  THEN acc
  ELSE GenerateFrom(parent,
         getNextDate(cur, parent.recurrence[1], parent.start), cnt + 1,
         IF /\ InVisibleRange(cur, Duration(parent), rangeStart)
            /\ DayMatches(cur, parent.recurrence[1])
         THEN Append(acc, createInstance(parent, cur, Duration(parent), cnt))
         ELSE acc,
         rangeStart, rangeEnd, zone)

\* the list generateInstances(parent, rangeStart, rangeEnd) returns
generateInstances(parent, rangeStart, rangeEnd, zone) ==
  IF NoRecurrence(parent) THEN <<>>
  ELSE GenerateFrom(parent, parent.start, 0, <<>>, rangeStart, rangeEnd, zone)

\* mutant: every generated instance on the day is listed
InstancesToListAll(ev, day, zone) ==
  IF IsDefined(ev.recurrence) /\ ev.recurrence[1].frequency # "never"
  THEN SelectSeq(generateInstances(ev, RangeStartAt(day), RangeEndAt(day), zone),
                 LAMBDA inst : DayOf(inst.start) = day)
  ELSE <<>>

\* the instances eventsOnDate adds for one stored event: those that start on
\* the day, but not at the time the event itself starts
InstancesToList(ev, day, zone) ==
  IF IsDefined(ev.recurrence) /\ ev.recurrence[1].frequency # "never"
  THEN SelectSeq(generateInstances(ev, RangeStartAt(day), RangeEndAt(day), zone),
                 LAMBDA inst : DayOf(inst.start) = day /\ inst.start # ev.start)
  ELSE <<>>

\* eventsOnDate(y, m, d) over the stored events evs, day being (y, m, d)
RECURSIVE eventsOnDate(_, _, _)
eventsOnDate(evs, day, zone) ==
  IF Len(evs) = 0 THEN <<>>
  ELSE ( IF IsRecurringInstance(evs[1]) THEN <<>>
         ELSE (IF DayOf(evs[1].start) = day THEN <<evs[1]>> ELSE <<>>)
              \o InstancesToList(evs[1], day, zone) )
       \o eventsOnDate(Tail(evs), day, zone)

(***************************************************************************)
(* Inputs the model explores.                                              *)
(***************************************************************************)
MaxInterval == 2
MaxCount == 3
WindowDays == 62
FarDays == 3500
MaxEndOffset == 7

At(y, m, d, hh, mm) == DaysFromCivil(y, m, d) * MinutesPerDay + hh * 60 + mm

\* Sat 2026-01-31, Wed 2024-01-31 (leap year), Mon 2026-01-05, Wed 2025-12-31
Starts == { At(2026, 1, 31, 9, 0), At(2024, 1, 31, 9, 0),
            At(2026, 1, 5, 9, 0), At(2025, 12, 31, 23, 30) }
Durations == {0, 60}
\* UTC-5, UTC and UTC+9, in minutes east of UTC
Zones == {0 - 300, 0, 540}

Pad2(n) == <<DigitChar(n \div 10), DigitChar(n % 10)>>
\* the value of an <input type="date">: YYYY-MM-DD
DateInputValue(day) ==
  LET c == CivilFromDays(day)
      y == c[1]
  IN  <<DigitChar(y \div 1000), DigitChar((y \div 100) % 10),
        DigitChar((y \div 10) % 10), DigitChar(y % 10)>>
      \o <<"-">> \o Pad2(c[2]) \o <<"-">> \o Pad2(c[3])

DaySets == { Undefined, Some(<<1, 3>>), Some(<<3>>) }

\* the end conditions of a rule whose parent starts on startDay
Ends(startDay) ==
  { [endCondition |-> "never", endCount |-> Undefined, endDate |-> Undefined] }
  \cup { [endCondition |-> "after", endCount |-> Some(n), endDate |-> Undefined] :
           n \in 1..MaxCount }
  \cup { [endCondition |-> "on", endCount |-> Undefined,
          endDate |-> Some(DateInputValue(startDay + k))] : k \in {0, MaxEndOffset} }

Rules(startDay) ==
  { [ frequency |-> f, interval |-> Some(n), daysOfWeek |-> ds,
      endCondition |-> e.endCondition, endCount |-> e.endCount, endDate |-> e.endDate ] :
      f \in {"daily", "weekly", "monthly", "yearly"}, n \in 1..MaxInterval,
      ds \in DaySets, e \in Ends(startDay) }

\* rules that leave the guard of generateInstances at once; the other fields
\* of a rule with frequency never may hold anything
NoRules(startDay) ==
  { [ frequency |-> "never", interval |-> Some(n), daysOfWeek |-> ds,
      endCondition |-> e.endCondition, endCount |-> e.endCount, endDate |-> e.endDate ] :
      n \in {1, MaxInterval}, ds \in {Undefined, Some(<<1, 3>>)}, e \in Ends(startDay) }
  \cup {NeverRule}

\* title "Sync; 1:1", location "Room 1, B", a description of two lines
FilledDisplay ==
  [ title |-> <<"S", "y", "n", "c", ";", " ", "1", ":", "1">>, allDay |-> FALSE,
    location |-> <<"R", "o", "o", "m", " ", "1", ",", " ", "B">>,
    description |-> <<"a", "\n", "b">>,
    color |-> <<"#", "0", "0", "7", "1", "e", "3">>,
    reminders |-> <<10, 30>> ]

\* the display fields parseICS starts from
EmptyDisplay ==
  [ title |-> <<>>, allDay |-> FALSE, location |-> <<>>,
    description |-> <<>>, color |-> <<>>, reminders |-> <<>> ]

\* the display fields of an event as the form stores them: trimmed strings
\* (empty when the input is left empty), the chosen colour, the checked
\* reminders; an imported event has them all empty
Displays ==
  { FilledDisplay, EmptyDisplay }

EventWith(start, duration, recurrence, display) ==
  [ id |-> <<"e", "v", "1">>, title |-> display.title, start |-> start,
    end |-> IF duration > 0 THEN Some(start + duration) ELSE Undefined,
    allDay |-> display.allDay, location |-> display.location,
    description |-> display.description, color |-> display.color,
    reminders |-> display.reminders, recurrence |-> recurrence ]

Event(start, duration, recurrence) ==
  EventWith(start, duration, recurrence, FilledDisplay)

\* weekday sets are a property of weekly rules (saveEventFromForm)
WellFormed(r) == IsDefined(r.daysOfWeek) => r.frequency \in {"weekly", "never"}

Parents ==
  { EventWith(s, d, Some(r), v) : s \in Starts, d \in Durations,
      r \in { x \in UNION { Rules(DayOf(t)) \cup NoRules(DayOf(t)) : t \in Starts } :
                WellFormed(x) },
      v \in Displays }
  \cup { Event(s, d, Undefined) : s \in Starts, d \in Durations }

\* query windows [00:00 of day a, 23:59:59 of day b], days counted from the
\* parent's start day
WindowOffsets == { <<0 - 1, WindowDays>>, <<0, 0>>, <<0, WindowDays>>, <<2, 9>>, <<7, 7>> }


\* CloudSync as the page loads it, and an empty collection in Firestore
NoSync ==
  /\ currentUserId = Undefined
  /\ isOnline = TRUE
  /\ syncStatus = "offline"
  /\ activeListeners = <<>>
  /\ debounceTimers = Undefined
  /\ offlineQueue = <<>>
  /\ loading = FALSE
  /\ afterLoad = <<>>
  /\ collection = <<>>

\* the calendar before it is loaded: nothing stored, nothing shown
NoApp ==
  /\ events = <<>>
  /\ target = 0
  /\ results = <<>>
  /\ lines = <<>>
  /\ currentModalEvent = Undefined
  /\ editingEventId = Undefined
  /\ formOpen = FALSE
  /\ stored = Undefined
  /\ cloud = Undefined
  /\ NoSync
  /\ handled = Undefined

\* values of the variables an operation does not use
Idle ==
  /\ pc = "idle"
  /\ current = 0
  /\ count = 0
  /\ instances = <<>>
  /\ thrown = FALSE
  /\ formatted = <<>>
  /\ again = FALSE

NoGenerateArgs ==
  /\ parentEvent = Event(0, 0, Undefined)
  /\ startRange = 0
  /\ endRange = 0

NoRRuleArgs ==
  /\ rule = Undefined
  /\ rrule = <<>>
  /\ rec = NeverRule

\* a call of generateInstances is about to be made
InitGenerate ==
  /\ Idle
  /\ NoApp
  /\ op = "generateInstances"
  /\ \E p \in Parents, w \in WindowOffsets :
       /\ parentEvent = p
       /\ startRange = RangeStartAt(DayOf(p.start) + w[1])
       /\ endRange = RangeEndAt(DayOf(p.start) + w[2])
  /\ tz \in Zones
  /\ NoRRuleArgs

\* never-ending rules (and one whose endCount is beyond the cap) of a parent
\* that starts on Monday 2026-01-05, queried far from the start
CapRules ==
  { [ frequency |-> "daily", interval |-> Some(1), daysOfWeek |-> Undefined,
      endCondition |-> e.endCondition, endCount |-> e.endCount, endDate |-> Undefined ] :
      e \in { [endCondition |-> "never", endCount |-> Undefined],
              [endCondition |-> "after", endCount |-> Some(maxInstances + 1)] } }
  \cup
  { [ frequency |-> "weekly", interval |-> Some(1), daysOfWeek |-> Some(<<1, 3>>),
      endCondition |-> "never", endCount |-> Undefined, endDate |-> Undefined ] }

CapParents == { Event(At(2026, 1, 5, 9, 0), d, Some(r)) : d \in Durations, r \in CapRules }

CapWindowOffsets == { <<0, FarDays>>, <<FarDays, FarDays + 7>>, <<7, 8>> }

InitCap ==
  /\ Idle
  /\ NoApp
  /\ op = "generateInstances"
  /\ \E p \in CapParents, w \in CapWindowOffsets :
       /\ parentEvent = p
       /\ startRange = RangeStartAt(DayOf(p.start) + w[1])
       /\ endRange = RangeEndAt(DayOf(p.start) + w[2])
  /\ tz = 0
  /\ NoRRuleArgs

\* mutant: count lives outside the function and is not reset by a call
GenerateInstancesCallKeepingCount ==
  /\ pc = "idle"
  /\ op = "generateInstances"
  /\ IF NoRecurrence(parentEvent)
     THEN pc' = "done" /\ current' = current
     ELSE pc' = "loop" /\ current' = parentEvent.start
  /\ instances' = <<>>
  /\ count' = count
  /\ UNCHANGED <<formatted, again, appVars, syncVars>>
  /\ UNCHANGED <<op, parentEvent, startRange, endRange, tz, rule, rrule, rec, thrown>>

\* rules whose interval is zero or negative (fromRRule lets INTERVAL=-1
\* through: parseInt(val, 10) || 1), of a parent that starts on Monday
\* 2026-01-05 and lasts an hour
NonPositiveIntervalRules ==
  { r \in { [ frequency |-> f, interval |-> Some(n), daysOfWeek |-> ds,
              endCondition |-> e.endCondition, endCount |-> e.endCount, endDate |-> Undefined ] :
              f \in {"daily", "weekly", "monthly", "yearly"}, n \in {0, 0 - 1},
              ds \in {Undefined, Some(<<1, 3>>)},
              e \in { [endCondition |-> "never", endCount |-> Undefined],
                      [endCondition |-> "after", endCount |-> Some(MaxCount)] } } :
      WellFormed(r) }

NonPositiveIntervalWindows == { <<0 - 7, 7>>, <<0, WindowDays>>, <<0 - 7, 0 - 1>> }

\* a call of generateInstances with such a rule is about to be made
InitNonPositiveInterval ==
  /\ Idle
  /\ NoApp
  /\ op = "generateInstances"
  /\ \E r \in NonPositiveIntervalRules, w \in NonPositiveIntervalWindows :
       /\ parentEvent = Event(At(2026, 1, 5, 9, 0), 60, Some(r))
       /\ startRange = RangeStartAt(DayOf(parentEvent.start) + w[1])
       /\ endRange = RangeEndAt(DayOf(parentEvent.start) + w[2])
  /\ tz = 0
  /\ NoRRuleArgs

\* yearly rules of parents that start on Feb 29 of a leap year and on an
\* ordinary day, queried over the years that follow
YearlyParents ==
  { Event(s, 60, Some([ frequency |-> "yearly", interval |-> Some(n), daysOfWeek |-> Undefined,
                        endCondition |-> e.endCondition, endCount |-> e.endCount,
                        endDate |-> Undefined ])) :
      s \in {At(2024, 2, 29, 9, 0), At(2026, 1, 5, 9, 0)}, n \in 1..MaxInterval,
      e \in { [endCondition |-> "never", endCount |-> Undefined],
              [endCondition |-> "after", endCount |-> Some(MaxCount)] } }

\* a call of generateInstances over several years is about to be made
InitYearly ==
  /\ Idle
  /\ NoApp
  /\ op = "generateInstances"
  /\ parentEvent \in YearlyParents
  /\ startRange = RangeStartAt(DayOf(parentEvent.start))
  /\ endRange = RangeEndAt(DayOf(parentEvent.start) + FarDays)
  /\ tz \in Zones
  /\ NoRRuleArgs

\* generateInstances(parentEvent, startRange, endRange), up to the loop
GenerateInstancesCall ==
  /\ pc = "idle"
  /\ op = "generateInstances"
  /\ IF NoRecurrence(parentEvent)
     THEN pc' = "done" /\ current' = current
     ELSE pc' = "loop" /\ current' = parentEvent.start
  /\ instances' = <<>>
  /\ count' = 0
  /\ UNCHANGED <<formatted, again, appVars, syncVars>>
  /\ UNCHANGED <<op, parentEvent, startRange, endRange, tz, rule, rrule, rec, thrown>>

\* mutant: only the candidates that became instances are counted
LoopStepCountingInstances ==
  /\ pc = "loop"
  /\ LoopCondition(current, count, endRange)
  /\ ~LoopBreak(current, count, parentEvent.recurrence[1], tz)
  /\ IF /\ InVisibleRange(current, Duration(parentEvent), startRange)
        /\ DayMatches(current, parentEvent.recurrence[1])
     THEN /\ instances' = Append(instances,
                 createInstance(parentEvent, current, Duration(parentEvent), count))
          /\ count' = count + 1
     ELSE UNCHANGED <<instances, count>>
  /\ current' = getNextDate(current, parentEvent.recurrence[1], parentEvent.start)
  /\ UNCHANGED <<formatted, again, appVars, syncVars>>
  /\ UNCHANGED <<pc, op, parentEvent, startRange, endRange, tz, rule, rrule, rec, thrown>>

\* mutant: an instance is numbered by its place in the result
LoopStepNumberingResults ==
  /\ pc = "loop"
  /\ LoopCondition(current, count, endRange)
  /\ ~LoopBreak(current, count, parentEvent.recurrence[1], tz)
  /\ instances' =
       IF /\ InVisibleRange(current, Duration(parentEvent), startRange)
          /\ DayMatches(current, parentEvent.recurrence[1])
       THEN Append(instances,
                   createInstance(parentEvent, current, Duration(parentEvent), Len(instances)))
       ELSE instances
  /\ count' = count + 1
  /\ current' = getNextDate(current, parentEvent.recurrence[1], parentEvent.start)
  /\ UNCHANGED <<formatted, again, appVars, syncVars>>
  /\ UNCHANGED <<pc, op, parentEvent, startRange, endRange, tz, rule, rrule, rec, thrown>>

\* one iteration of the while loop
LoopStep ==
  /\ pc = "loop"
  /\ LoopCondition(current, count, endRange)
  /\ ~LoopBreak(current, count, parentEvent.recurrence[1], tz)
  /\ instances' =
       IF /\ InVisibleRange(current, Duration(parentEvent), startRange)
          /\ DayMatches(current, parentEvent.recurrence[1])
       THEN Append(instances, createInstance(parentEvent, current, Duration(parentEvent), count))
       ELSE instances
  /\ count' = count + 1
  /\ current' = getNextDate(current, parentEvent.recurrence[1], parentEvent.start)
  /\ UNCHANGED <<formatted, again, appVars, syncVars>>
  /\ UNCHANGED <<pc, op, parentEvent, startRange, endRange, tz, rule, rrule, rec, thrown>>

\* the loop ends (condition false, or a break) and instances is returned
LoopExit ==
  /\ pc = "loop"
  /\ \/ ~LoopCondition(current, count, endRange)
     \/ LoopBreak(current, count, parentEvent.recurrence[1], tz)
  /\ pc' = "done"
  /\ UNCHANGED <<formatted, again, appVars, syncVars>>
  /\ UNCHANGED <<op, parentEvent, startRange, endRange, tz, current, count,
                 instances, rule, rrule, rec, thrown>>

\* toRRule(rule)
ToRRuleCall ==
  /\ pc = "idle"
  /\ op = "toRRule"
  /\ rrule' = toRRule(rule, tz)
  /\ pc' = "serialized"
  /\ UNCHANGED <<formatted, again, appVars, syncVars>>
  /\ UNCHANGED <<op, parentEvent, startRange, endRange, tz, current, count,
                 instances, rule, rec, thrown>>

\* fromRRule(rrule), on a string of its own or on the result of toRRule
FromRRuleCall ==
  /\ \/ pc = "idle" /\ op = "fromRRule" /\ op' = op
     \/ pc = "serialized" /\ op = "toRRule" /\ op' = "roundTrip"
  /\ thrown' = fromRRule(rrule).thrown
  /\ rec' = IF fromRRule(rrule).thrown THEN rec ELSE fromRRule(rrule).rec
  /\ pc' = "done"
  /\ UNCHANGED <<formatted, again, appVars, syncVars>>
  /\ UNCHANGED <<parentEvent, startRange, endRange, tz, current, count,
                 instances, rule, rrule>>

\* formatRule(rule)
FormatRuleCall ==
  /\ pc = "idle"
  /\ op = "formatRule"
  /\ formatted' = formatRule(rule)
  /\ pc' = "done"
  /\ UNCHANGED <<again, appVars, syncVars>>
  /\ UNCHANGED <<op, parentEvent, startRange, endRange, tz, current, count,
                 instances, rule, rrule, rec, thrown>>

\* rules whose end condition has no value: "on" with the date input left
\* empty (saveEventFromForm stores null), "after" with the count fromRRule
\* reads from COUNT=0 or COUNT=x
ValuelessEndRules ==
  { [ frequency |-> f, interval |-> Some(n), daysOfWeek |-> Undefined,
      endCondition |-> e.endCondition, endCount |-> e.endCount, endDate |-> e.endDate ] :
      f \in {"daily", "monthly"}, n \in 1..MaxInterval,
      e \in { [endCondition |-> "on", endCount |-> Undefined, endDate |-> Undefined],
              [endCondition |-> "after", endCount |-> Some(0), endDate |-> Undefined],
              [endCondition |-> "after", endCount |-> Some(NaN), endDate |-> Undefined] } }

\* rules handed to toRRule: those of the events, with a two-digit interval
\* added, with an end condition that lacks its value, and a missing rule
RRuleRules ==
  { Some(r) : r \in { x \in UNION { Rules(DayOf(t)) \cup NoRules(DayOf(t)) : t \in Starts } :
                       WellFormed(x) } }
  \cup { Some([ frequency |-> f, interval |-> Some(12), daysOfWeek |-> Undefined,
                endCondition |-> "never", endCount |-> Undefined, endDate |-> Undefined ]) :
           f \in {"daily", "yearly"} }
  \cup { Some(r) : r \in ValuelessEndRules }
  \cup { Undefined }

\* a call of toRRule is about to be made
InitToRRule ==
  /\ Idle
  /\ NoApp
  /\ op = "toRRule"
  /\ NoGenerateArgs
  /\ tz \in Zones
  /\ rule \in RRuleRules
  /\ rrule = <<>>
  /\ rec = NeverRule

\* parts of the RRULE strings handed to fromRRule: well-formed ones, recognised
\* keys with no "=" or no value, unknown keys
RRuleParts ==
  { <<"F", "R", "E", "Q", "=", "D", "A", "I", "L", "Y">>,
    <<"F", "R", "E", "Q", "=", "W", "E", "E", "K", "L", "Y">>,
    <<"F", "R", "E", "Q", "=", "B", "O", "G", "U", "S">>,
    <<"F", "R", "E", "Q", "=", "t", "o", "S", "t", "r", "i", "n", "g">>,
    <<"F", "R", "E", "Q">>,
    <<"F", "R", "E", "Q", "=">>,
    <<"I", "N", "T", "E", "R", "V", "A", "L", "=", "2">>,
    <<"I", "N", "T", "E", "R", "V", "A", "L", "=", "x">>,
    <<"I", "N", "T", "E", "R", "V", "A", "L">>,
    <<"I", "N", "T", "E", "R", "V", "A", "L", "=">>,
    <<"B", "Y", "D", "A", "Y", "=", "M", "O", ",", "W", "E">>,
    <<"B", "Y", "D", "A", "Y", "=", "M", "O", ",", "X", "X", ",", " ", "S", "U">>,
    <<"B", "Y", "D", "A", "Y", "=", "M", "O", ",", "v", "a", "l", "u", "e", "O", "f">>,
    <<"B", "Y", "D", "A", "Y">>,
    <<"B", "Y", "D", "A", "Y", "=">>,
    <<"C", "O", "U", "N", "T", "=", "3">>,
    <<"C", "O", "U", "N", "T">>,
    <<"C", "O", "U", "N", "T", "=">>,
    <<"U", "N", "T", "I", "L", "=", "2", "0", "2", "6", "1", "2", "3", "1", "T", "0", "0", "0", "0", "0", "0">>,
    <<"U", "N", "T", "I", "L", "=", "2", "0", "2", "6", "0", "3", "0", "1", "T", "2", "3", "5", "9", "5", "9", "Z">>,
    <<"U", "N", "T", "I", "L", "=", "2", "0", "2", "6", "1", "2", "3", "1">>,
    <<"U", "N", "T", "I", "L">>,
    <<"U", "N", "T", "I", "L", "=">>,
    <<"W", "K", "S", "T", "=", "M", "O">>,
    <<"B", "Y", "M", "O", "N", "T", "H", "=", "1">>,
    <<"X">>,
    <<>> }

MaxParts == 2

RECURSIVE PartLists(_)
PartLists(n) ==
  IF n = 0 THEN { <<>> }
  ELSE PartLists(n - 1) \cup { Append(l, q) : l \in PartLists(n - 1), q \in RRuleParts }

\* a call of fromRRule is about to be made
InitFromRRule ==
  /\ Idle
  /\ NoApp
  /\ op = "fromRRule"
  /\ NoGenerateArgs
  /\ tz = 0
  /\ rule = Undefined
  /\ rrule \in { Join(l, <<";">>) : l \in PartLists(MaxParts) }
  /\ rec = NeverRule

\* the same event under another id
WithId(ev, id) == [ev EXCEPT !.id = id]

\* a rule as saveEventFromForm or fromRRule builds it
RuleOf(f, n, ds, cond, cnt, date) ==
  [ frequency |-> f, interval |-> Some(n), daysOfWeek |-> ds,
    endCondition |-> cond, endCount |-> cnt, endDate |-> date ]

\* Monday 2026-01-05, 09:00
Monday9 == At(2026, 1, 5, 9, 0)

\* events handed to exportToICS: a weekly one on Monday and Wednesday with
\* a count, one that does not repeat, one with no rule at all, an all-day
\* daily one with an end date, a daily one whose end date was left empty,
\* and a generated instance of the first
EventPool ==
  LET weekly == EventWith(Monday9, 60,
                  Some(RuleOf("weekly", 2, Some(<<1, 3>>), "after", Some(3), Undefined)),
                  FilledDisplay)
  IN  << weekly,
         WithId(EventWith(Monday9, 60, Some(NeverRule), EmptyDisplay), <<"e", "v", "2">>),
         WithId(EventWith(Monday9, 0, Undefined, EmptyDisplay), <<"u", "r", "l", "-", "0">>),
         WithId(EventWith(Monday9 - 9 * 60, MinutesPerDay - 1,
                  Some(RuleOf("daily", 1, Undefined, "on", Undefined,
                              Some(DateInputValue(DayOf(Monday9) + MaxEndOffset)))),
                  [FilledDisplay EXCEPT !.allDay = TRUE]), <<"e", "v", "3">>),
         WithId(EventWith(Monday9, 60,
                  Some(RuleOf("daily", 1, Undefined, "on", Undefined, Undefined)),
                  EmptyDisplay), <<"i", "c", "s", "-", "a">>),
         createInstance(weekly, Monday9 + 2 * MinutesPerDay, 60, 1) >>

MaxExport == 3

\* the lists of at most n different members of pool
RECURSIVE ListsOf(_, _)
ListsOf(pool, n) ==
  IF n = 0 THEN {<<>>}
  ELSE ListsOf(pool, n - 1)
       \cup { Append(l, pool[i]) : l \in ListsOf(pool, n - 1), i \in 1..Len(pool) }

Distinct(l) == \A i, j \in 1..Len(l) : i # j => l[i] # l[j]

\* the clock readings of new Date() during an export
Nows == { Monday9 + 180, At(2026, 12, 31, 23, 59) }

\* a call of exportToICS is about to be made
InitExport ==
  /\ Idle
  /\ op = "exportToICS"
  /\ NoGenerateArgs
  /\ NoRRuleArgs
  /\ tz \in Zones
  /\ events \in { l \in ListsOf(EventPool, MaxExport) : Distinct(l) }
  /\ target = 0
  /\ results = <<>>
  /\ lines = <<>>
  /\ currentModalEvent = Undefined
  /\ editingEventId = Undefined
  /\ formOpen = FALSE
  /\ stored = Undefined
  /\ cloud = Undefined
  /\ NoSync
  /\ handled = Undefined

\* exportToICS(events)
ExportToICSCall ==
  /\ pc = "idle"
  /\ op = "exportToICS"
  /\ \E now \in Nows : lines' = exportToICS(events, now, tz)
  /\ pc' = "done"
  /\ UNCHANGED <<events, target, results, currentModalEvent, editingEventId,
                 formOpen, stored, cloud, handled>>
  /\ UNCHANGED <<op, parentEvent, startRange, endRange, tz, current, count,
                 instances, rule, rrule, rec, thrown, formatted, again, syncVars>>

MaxListed == 2

\* the days eventsOnDate is asked about, counted from Monday 2026-01-05
TargetOffsets == {0 - 1, 0, 1, 2, 7, 14}

\* a call of eventsOnDate is about to be made
InitEventsOnDate ==
  /\ Idle
  /\ op = "eventsOnDate"
  /\ NoGenerateArgs
  /\ NoRRuleArgs
  /\ tz \in Zones
  /\ events \in { l \in ListsOf(EventPool, MaxListed) : Distinct(l) }
  /\ target \in { DayOf(Monday9) + k : k \in TargetOffsets }
  /\ results = <<>>
  /\ lines = <<>>
  /\ currentModalEvent = Undefined
  /\ editingEventId = Undefined
  /\ formOpen = FALSE
  /\ stored = Undefined
  /\ cloud = Undefined
  /\ NoSync
  /\ handled = Undefined

\* eventsOnDate(y, m, d)
EventsOnDateCall ==
  /\ pc = "idle"
  /\ op = "eventsOnDate"
  /\ results' = eventsOnDate(events, target, tz)
  /\ pc' = "done"
  /\ UNCHANGED <<events, target, lines, currentModalEvent, editingEventId,
                 formOpen, stored, cloud, handled>>
  /\ UNCHANGED <<op, parentEvent, startRange, endRange, tz, current, count,
                 instances, rule, rrule, rec, thrown, formatted, again, syncVars>>

\* a call of formatRule is about to be made (the modal shows the rule of the
\* event it opens)
InitFormatRule ==
  /\ Idle
  /\ NoApp
  /\ op = "formatRule"
  /\ NoGenerateArgs
  /\ tz = 0
  /\ rule \in RRuleRules
  /\ rrule = <<>>
  /\ rec = NeverRule

\* the caller makes the call it has made once more, with the arguments it
\* passed before; what the first call left behind is still there
CallAgain ==
  /\ pc = "done"
  /\ ~again
  /\ op \in {"generateInstances", "formatRule", "fromRRule", "roundTrip"}
  /\ again' = TRUE
  /\ pc' = "idle"
  /\ op' = IF op = "roundTrip" THEN "toRRule" ELSE op
  /\ UNCHANGED <<formatted, appVars, syncVars>>
  /\ UNCHANGED <<parentEvent, startRange, endRange, tz, current, count,
                 instances, rule, rrule, rec, thrown>>

Init ==
  \/ InitGenerate \/ InitCap \/ InitNonPositiveInterval \/ InitYearly \/ InitToRRule \/ InitFromRRule \/ InitFormatRule
  \/ InitExport \/ InitEventsOnDate

Next ==
  \/ GenerateInstancesCall \/ LoopStep \/ LoopExit
  \/ ToRRuleCall \/ FromRRuleCall \/ FormatRuleCall
  \/ ExportToICSCall \/ EventsOnDateCall
  \/ CallAgain

Spec == Init /\ [][Next]_vars

(***************************************************************************)
(* generateInstances on rules no form produces, run to its end.            *)
(***************************************************************************)
\* rules with a zero or negative interval, an unknown frequency, a weekday
\* set that holds no weekday, and end conditions that are never met: a
\* count of 0 (recCount stays null), a date that does not parse (recEnd is
\* an Invalid Date, and no date is after it)
MalformedRules ==
  { [ frequency |-> f, interval |-> n, daysOfWeek |-> ds,
      endCondition |-> e.endCondition, endCount |-> e.endCount, endDate |-> e.endDate ] :
      f \in {"daily", "weekly", "monthly", "yearly", "hourly"},
      n \in {Some(0), Some(0 - 1)},
      ds \in {Undefined, Some(<<7>>)},
      e \in { [endCondition |-> "after", endCount |-> Some(0), endDate |-> Undefined],
              [endCondition |-> "on", endCount |-> Undefined, endDate |-> Some(<<"x">>)] } }

MalformedWindows == { <<0, FarDays>>, <<0 - 7, 7>> }

\* a call of generateInstances with such a rule is about to be made
InitMalformed ==
  /\ Idle
  /\ NoApp
  /\ op = "generateInstances"
  /\ \E r \in MalformedRules, w \in MalformedWindows :
       /\ parentEvent = Event(At(2026, 1, 5, 9, 0), 60, Some(r))
       /\ startRange = RangeStartAt(DayOf(parentEvent.start) + w[1])
       /\ endRange = RangeEndAt(DayOf(parentEvent.start) + w[2])
  /\ tz = 0
  /\ NoRRuleArgs

\* the steps of one call of generateInstances
GenerateNext == GenerateInstancesCall \/ LoopStep \/ LoopExit

\* LoopStep as count shows it: its guard, and the increment only it makes
LoopStepTaken ==
  /\ pc = "loop"
  /\ LoopCondition(current, count, endRange)
  /\ ~LoopBreak(current, count, parentEvent.recurrence[1], tz)
  /\ count' = count + 1

\* a call that has started runs on: the function is not interrupted
RunSpec ==
  /\ InitMalformed /\ [][GenerateNext]_vars
  /\ WF_vars(GenerateInstancesCall) /\ WF_count(LoopStepTaken) /\ WF_vars(LoopExit)

(***************************************************************************)
(* The calendar around the engine: modal, event form, import, storage.     *)
(***************************************************************************)
\* the index of the first event of evs with the id, or 0 (find, findIndex)
RECURSIVE FindFrom(_, _, _)
FindFrom(evs, id, i) ==
  IF i > Len(evs) THEN 0 ELSE IF evs[i].id = id THEN i ELSE FindFrom(evs, id, i + 1)
FindById(evs, id) == FindFrom(evs, id, 1)

\* mutant: the form opens on whatever the modal shows
EventToEditItself(shown, evs) == shown

\* editCurrentEvent: an instance is replaced by its parent, if there is one
EventToEdit(shown, evs) ==
  IF IsRecurringInstance(shown) /\ shown.parentId # <<>>
  THEN IF FindById(evs, shown.parentId) # 0
       THEN evs[FindById(evs, shown.parentId)] ELSE shown
  ELSE shown

\* deleteCurrentEvent: the two cases that ask "Delete all occurrences?"
AsksToConfirm(shown) ==
  \/ IsRecurringInstance(shown) /\ shown.parentId # <<>>
  \/ ~IsRecurringInstance(shown) /\ IsDefined(shown.recurrence)
       /\ shown.recurrence[1].frequency # "never"

\* deleteCurrentEvent: eventToDelete.id after the redirect
IdToDelete(shown) ==
  IF IsRecurringInstance(shown) /\ shown.parentId # <<>> THEN shown.parentId ELSE shown.id

\* state.events.filter(e => e.id !== eventId)
WithoutId(evs, id) == SelectSeq(evs, LAMBDA e : e.id # id)

\* saveEvents: events.filter(ev => !ev.isRecurringInstance)
ToSave(evs) == SelectSeq(evs, LAMBDA ev : ~IsRecurringInstance(ev))

\* mergeEvents: the existing events in their order, each overwritten by the
\* imported one of the same id, then the imported ones with new ids
RECURSIVE mergeEvents(_, _)
mergeEvents(existing, imported) ==
  IF Len(imported) = 0 THEN existing
  ELSE LET i == FindById(existing, imported[1].id)
       IN  mergeEvents(IF i = 0 THEN Append(existing, imported[1])
                       ELSE [existing EXCEPT ![i] = imported[1]],
                       Tail(imported))

\* mutant: render keeps the instances it generated among the events
EventsAfterRenderWithInstances(evs, listed) ==
  evs \o SelectSeq(listed, LAMBDA ev : IsRecurringInstance(ev))

\* render reads state.events and leaves it as it is
EventsAfterRender(evs, listed) == evs

MaxEvents == 2

\* the ids SyncManager.generateId hands out, in order
IdPool == << <<"e", "v", "1">>, <<"e", "v", "2">>, <<"e", "v", "3">> >>

\* generateId: an id no stored event has
FreshId(evs) == IdPool[CHOOSE i \in 1..Len(IdPool) :
                        /\ FindById(evs, IdPool[i]) = 0
                        /\ \A j \in 1..(i - 1) : FindById(evs, IdPool[j]) # 0]

\* what the form can hold when it is saved: a weekly event on Monday and
\* Wednesday, one that does not repeat, a daily one that ends after 3
FormEvents ==
  { EventWith(Monday9, 60,
       Some(RuleOf("weekly", 1, Some(<<1, 3>>), "never", Undefined, Undefined)),
       FilledDisplay),
    EventWith(Monday9, 60, Some(NeverRule), FilledDisplay),
    EventWith(Monday9, 60,
       Some(RuleOf("daily", 1, Undefined, "after", Some(MaxCount), Undefined)),
       FilledDisplay) }

\* what parseICS reads from an imported file
Imports ==
  { << EventPool[5] >>,
    << WithId(EventWith(Monday9, 60, Some(NeverRule), EmptyDisplay), <<"i", "c", "s", "-", "a">>) >> }

\* what another device has saved to the cloud
RemoteLists ==
  { << WithId(EventWith(Monday9, 60, Some(NeverRule), FilledDisplay), <<"e", "v", "2">>) >> }

\* the days the calendar shows
AppDays == { DayOf(Monday9) + k : k \in {0, 2, 7} }

\* the calendar after init(): the stored events are loaded and rendered
AppInit ==
  /\ Idle
  /\ op = "init"
  /\ NoGenerateArgs
  /\ NoRRuleArgs
  /\ tz = 0
  /\ \E seed \in { <<>>, << CHOOSE e \in FormEvents : e.recurrence[1].frequency = "weekly" >> } :
       /\ events = seed
       /\ stored = IF seed = <<>> THEN Undefined ELSE Some(seed)
  /\ cloud = Undefined
  /\ NoSync
  /\ target = DayOf(Monday9)
  /\ results = eventsOnDate(events, target, tz)
  /\ lines = <<>>
  /\ currentModalEvent = Undefined
  /\ editingEventId = Undefined
  /\ formOpen = FALSE
  /\ handled = Undefined

\* the engine's own variables, which the calendar's handlers do not touch;
\* of CloudSync the calendar sees the array it hands over, cloud
EngineUnchanged ==
  UNCHANGED <<pc, parentEvent, startRange, endRange, tz, current, count,
              instances, rule, rrule, rec, thrown, formatted, again, lines, syncVars>>

\* persistEvents() and render() after state.events became evs
PersistAndRender(evs) ==
  /\ events' = EventsAfterRender(evs, eventsOnDate(evs, target, tz))
  /\ stored' = Some(ToSave(evs))
  /\ cloud' = Some(ToSave(evs))
  /\ results' = eventsOnDate(evs, target, tz)

\* the calendar is rendered for a day
Render ==
  /\ ~formOpen
  /\ \E day \in AppDays :
       /\ target' = day
       /\ results' = eventsOnDate(events, day, tz)
       /\ events' = EventsAfterRender(events, eventsOnDate(events, day, tz))
  /\ op' = "render" /\ handled' = Undefined
  /\ UNCHANGED <<currentModalEvent, editingEventId, formOpen, stored, cloud>>
  /\ EngineUnchanged

\* a listed event is clicked: openModal(ev)
OpenModal ==
  /\ ~formOpen /\ ~IsDefined(currentModalEvent)
  /\ \E i \in 1..Len(results) : currentModalEvent' = Some(results[i])
  /\ op' = "openModal" /\ handled' = Undefined
  /\ UNCHANGED <<events, target, results, editingEventId, formOpen, stored, cloud>>
  /\ EngineUnchanged

CloseModal ==
  /\ IsDefined(currentModalEvent)
  /\ currentModalEvent' = Undefined
  /\ op' = "closeModal" /\ handled' = Undefined
  /\ UNCHANGED <<events, target, results, editingEventId, formOpen, stored, cloud>>
  /\ EngineUnchanged

\* editCurrentEvent(): the modal closes and the form opens for editing
EditCurrentEvent ==
  /\ IsDefined(currentModalEvent)
  /\ handled' = Some([shown |-> currentModalEvent[1], answer |-> "not asked"])
  /\ currentModalEvent' = Undefined
  /\ editingEventId' = Some(EventToEdit(currentModalEvent[1], events).id)
  /\ formOpen' = TRUE
  /\ op' = "editCurrentEvent"
  /\ UNCHANGED <<events, target, results, stored, cloud>>
  /\ EngineUnchanged

\* deleteCurrentEvent(): when confirm() is asked it answers either way
DeleteCurrentEvent ==
  /\ IsDefined(currentModalEvent)
  /\ op' = "deleteCurrentEvent"
  /\ \E confirmed \in BOOLEAN :
       /\ handled' = Some([ shown |-> currentModalEvent[1],
                            answer |-> IF ~AsksToConfirm(currentModalEvent[1]) THEN "not asked"
                                       ELSE IF confirmed THEN "confirmed" ELSE "declined" ])
       /\ IF AsksToConfirm(currentModalEvent[1]) /\ ~confirmed
          THEN UNCHANGED <<events, target, results, currentModalEvent, editingEventId,
                           formOpen, stored, cloud>>
          ELSE /\ currentModalEvent' = Undefined
               /\ PersistAndRender(WithoutId(events, IdToDelete(currentModalEvent[1])))
               /\ UNCHANGED <<target, editingEventId, formOpen>>
  /\ EngineUnchanged

\* openEventForm(): the form opens for a new event
OpenEventForm ==
  /\ ~formOpen
  /\ editingEventId' = Undefined
  /\ formOpen' = TRUE
  /\ op' = "openEventForm" /\ handled' = Undefined
  /\ UNCHANGED <<events, target, results, currentModalEvent, stored, cloud>>
  /\ EngineUnchanged

\* saveEventFromForm() with a valid form: the event under edit is replaced,
\* or a new one is added; then persistEvents, closeEventForm, render
SaveEventFromForm ==
  /\ formOpen
  /\ \E eventData \in FormEvents :
       IF IsDefined(editingEventId)
       THEN LET idx == FindById(events, editingEventId[1])
            IN  PersistAndRender(IF idx # 0
                                 THEN [events EXCEPT ![idx] = WithId(eventData, editingEventId[1])]
                                 ELSE events)
       ELSE /\ Len(events) < MaxEvents
            /\ PersistAndRender(Append(events, WithId(eventData, FreshId(events))))
  /\ editingEventId' = Undefined
  /\ formOpen' = FALSE
  /\ op' = "saveEventFromForm" /\ handled' = Undefined
  /\ UNCHANGED <<target, currentModalEvent>>
  /\ EngineUnchanged

\* deleteEventFromForm(): when confirm() is asked it answers either way
DeleteEventFromForm ==
  /\ formOpen /\ IsDefined(editingEventId)
  /\ op' = "deleteEventFromForm" /\ handled' = Undefined
  /\ \E confirmed \in BOOLEAN :
       LET idx == FindById(events, editingEventId[1])
       IN  IF idx # 0 /\ IsDefined(events[idx].recurrence)
              /\ events[idx].recurrence[1].frequency # "never" /\ ~confirmed
           THEN UNCHANGED <<events, target, results, currentModalEvent, editingEventId,
                            formOpen, stored, cloud>>
           ELSE /\ PersistAndRender(WithoutId(events, editingEventId[1]))
                /\ editingEventId' = Undefined
                /\ formOpen' = FALSE
                /\ UNCHANGED <<target, currentModalEvent>>
  /\ EngineUnchanged

\* closeEventForm()
CloseEventForm ==
  /\ formOpen
  /\ formOpen' = FALSE
  /\ editingEventId' = Undefined
  /\ op' = "closeEventForm" /\ handled' = Undefined
  /\ UNCHANGED <<events, target, results, currentModalEvent, stored, cloud>>
  /\ EngineUnchanged

\* importICS(file): the parsed events are merged in, persisted, rendered
ImportICS ==
  /\ \E imported \in Imports :
       /\ Len(mergeEvents(events, imported)) <= MaxEvents
       /\ PersistAndRender(mergeEvents(events, imported))
  /\ op' = "importICS" /\ handled' = Undefined
  /\ UNCHANGED <<target, currentModalEvent, editingEventId, formOpen>>
  /\ EngineUnchanged

\* the callback for "events" that buildLoadCallbacks hands to CloudSync: the
\* items of another device replace the stored item
CloudEventsCallback ==
  /\ \E items \in RemoteLists :
       /\ Len(items) > 0
       /\ stored' = Some(items)
  /\ op' = "cloudCallback" /\ handled' = Undefined
  /\ UNCHANGED <<events, target, results, currentModalEvent, editingEventId,
                 formOpen, cloud>>
  /\ EngineUnchanged

AppNext ==
  \/ Render \/ OpenModal \/ CloseModal \/ EditCurrentEvent \/ DeleteCurrentEvent
  \/ OpenEventForm \/ SaveEventFromForm \/ DeleteEventFromForm \/ CloseEventForm
  \/ ImportICS \/ CloudEventsCallback

AppSpec == AppInit /\ [][AppNext]_vars

(***************************************************************************)
(* CloudSync: sign-in, the initial load, the debounced push.               *)
(***************************************************************************)
MaxQueue == 1

\* the keys of the object buildLoadCallbacks returns, in insertion order
CallbackTypes ==
  <<"todos", "notes", "goals", "bookmarks", "assignments", "sessions", "habits", "events">>

\* user.uid of the one account
TheUser == "uid-1"

\* the ids of the events the calendar holds here, in Firestore's document order
SyncIds == << <<"e", "v", "2">>, <<"e", "v", "3">> >>

\* the lengths, in minutes, an event is saved with
SyncDurations == {60, 90}

\* the event the form saves under id
SyncEvent(id, duration) ==
  WithId(EventWith(Monday9, duration, Some(NeverRule), EmptyDisplay), id)

\* Object.assign({}, item, { lastModified: ts }): the document written for item
Doc(item) == [data |-> item, lastModified |-> "ts"]

\* doc.data() as the calendar reads it back: lastModified has no reader
DocData(doc) == doc.data

\* a collection without documents
EmptyCollection == [i \in 1..Len(SyncIds) |-> Undefined]

\* batch.set(ref, ...) for every item, then batch.commit(): documents are
\* written under their ids, none is deleted
BatchSet(coll, items) ==
  [i \in 1..Len(SyncIds) |->
     IF \E k \in 1..Len(items) : items[k].id = SyncIds[i]
     THEN LET last == CHOOSE k \in 1..Len(items) :
                        /\ items[k].id = SyncIds[i]
                        /\ \A j \in (k + 1)..Len(items) : items[j].id # SyncIds[i]
          IN  Some(Doc(items[last]))
     ELSE coll[i]]

\* snapshot.forEach(function (doc) { items.push(doc.data()); })
SnapshotItems(coll) ==
  LET docs == SelectSeq(coll, LAMBDA d : IsDefined(d))
  IN  [k \in 1..Len(docs) |-> DocData(docs[k][1])]

\* saveCollection("events", items); commits tells whether batch.commit()
\* resolves
saveCollection(user, coll, items, commits) ==
  IF ~IsDefined(user) THEN [collection |-> coll, resolved |-> TRUE]
  ELSE IF Len(items) = 0 THEN [collection |-> coll, resolved |-> TRUE]
  ELSE IF commits THEN [collection |-> BatchSet(coll, items), resolved |-> TRUE]
  ELSE [collection |-> coll, resolved |-> FALSE]

\* flushOfflineQueue(): the last queued list of the type is saved
flushOfflineQueue(user, online, queue, coll, status, commits) ==
  IF ~online \/ ~IsDefined(user) \/ Len(queue) = 0
  THEN [offlineQueue |-> queue, collection |-> coll, syncStatus |-> status]
  ELSE LET saved == saveCollection(user, coll, queue[Len(queue)], commits)
       IN  [offlineQueue |-> <<>>, collection |-> saved.collection,
            syncStatus |-> IF saved.resolved THEN "synced" ELSE "error"]

\* syncToCloud("events", items): queued when offline or signed out, otherwise
\* the timer of the type is set anew
syncToCloud(items) ==
  IF ~isOnline \/ ~IsDefined(currentUserId)
  THEN /\ Len(offlineQueue) < MaxQueue
       /\ offlineQueue' = Append(offlineQueue, items)
       /\ syncStatus' = "offline"
       /\ UNCHANGED debounceTimers
  ELSE /\ debounceTimers' = Some(items)
       /\ UNCHANGED <<offlineQueue, syncStatus>>

\* what onSignIn returns: it has no return statement
onSignInResult == Undefined

\* startRealtimeListeners(): the earlier listeners are detached, then
\* listenCollection attaches one per callback while a user is signed in
startRealtimeListeners(user) == IF IsDefined(user) THEN CallbackTypes ELSE <<>>

\* the calendar is open on two devices' worth of history: what it holds is
\* stored and is in the cloud
SyncInit ==
  /\ Idle
  /\ op = "init"
  /\ NoGenerateArgs
  /\ NoRRuleArgs
  /\ tz = 0
  /\ \E seed \in { <<>>, << SyncEvent(SyncIds[1], 60) >> } :
       /\ events = seed
       /\ stored = IF seed = <<>> THEN Undefined ELSE Some(seed)
       /\ collection = BatchSet(EmptyCollection, seed)
  /\ cloud = Undefined
  /\ target = DayOf(Monday9)
  /\ results = eventsOnDate(events, target, tz)
  /\ lines = <<>>
  /\ currentModalEvent = Undefined
  /\ editingEventId = Undefined
  /\ formOpen = FALSE
  /\ handled = Undefined
  /\ currentUserId = Undefined
  /\ isOnline = TRUE
  /\ syncStatus = "offline"
  /\ activeListeners = <<>>
  /\ debounceTimers = Undefined
  /\ offlineQueue = <<>>
  /\ loading = FALSE
  /\ afterLoad = <<>>

\* what neither the calendar's saving nor CloudSync touches
SyncUnchanged ==
  UNCHANGED <<pc, parentEvent, startRange, endRange, tz, current, count, instances,
              rule, rrule, rec, formatted, again, lines, target, currentModalEvent,
              editingEventId, formOpen, handled>>

\* state.events became evs: persistEvents() with SyncManager.saveEvents and
\* its cloud hook, then render()
SaveLocal(evs) ==
  /\ PersistAndRender(evs)
  /\ syncToCloud(ToSave(evs))
  /\ thrown' = FALSE
  /\ UNCHANGED <<currentUserId, isOnline, activeListeners, loading, afterLoad, collection>>
  /\ SyncUnchanged

\* an event is added
LocalAdd ==
  /\ Len(events) < MaxEvents
  /\ \E i \in 1..Len(SyncIds) :
       /\ FindById(events, SyncIds[i]) = 0
       /\ SaveLocal(Append(events, SyncEvent(SyncIds[i], 60)))
  /\ op' = "add"

\* an event is changed
LocalUpdate ==
  /\ \E i \in 1..Len(events), d \in SyncDurations :
       /\ SyncEvent(events[i].id, d) # events[i]
       /\ SaveLocal([events EXCEPT ![i] = SyncEvent(events[i].id, d)])
  /\ op' = "update"

\* an event is deleted
LocalDelete ==
  /\ \E i \in 1..Len(events) : SaveLocal(WithoutId(events, events[i].id))
  /\ op' = "delete"

\* the auth state changes to a signed-in user: CloudSync.onSignIn starts the
\* load and chains flushOfflineQueue on it; the callback then calls .then on
\* what onSignIn returned, which raises when that is no promise
AuthSignedIn ==
  /\ ~IsDefined(currentUserId)
  /\ currentUserId' = Some(TheUser)
  /\ syncStatus' = "syncing"
  /\ loading' = TRUE
  /\ afterLoad' = IF IsDefined(onSignInResult)
                  THEN <<"flushOfflineQueue", "startRealtimeListeners">>
                  ELSE <<"flushOfflineQueue">>
  /\ thrown' = ~IsDefined(onSignInResult)
  /\ op' = "onAuthStateChanged"
  /\ UNCHANGED <<events, results, stored, cloud, isOnline, activeListeners,
                 debounceTimers, offlineQueue, collection>>
  /\ SyncUnchanged

\* the auth state changes to no user: CloudSync.onSignOut()
AuthSignedOut ==
  /\ IsDefined(currentUserId)
  /\ activeListeners' = <<>>
  /\ currentUserId' = Undefined
  /\ syncStatus' = "offline"
  /\ thrown' = FALSE
  /\ op' = "onSignOut"
  /\ UNCHANGED <<events, results, stored, cloud, isOnline, debounceTimers,
                 offlineQueue, loading, afterLoad, collection>>
  /\ SyncUnchanged

\* the promise of loadAllData settles: the callback of "events" stores a
\* non-empty snapshot, then the chained callbacks run
LoadAllDataSettles ==
  /\ loading
  /\ \E loaded \in BOOLEAN, commits \in BOOLEAN :
       LET items == SnapshotItems(collection)
           status == IF loaded THEN "synced" ELSE "error"
           flushed == IF Includes(afterLoad, "flushOfflineQueue")
                      THEN flushOfflineQueue(currentUserId, isOnline, offlineQueue,
                                             collection, status, commits)
                      ELSE [offlineQueue |-> offlineQueue, collection |-> collection,
                            syncStatus |-> status]
       IN  /\ stored' = IF loaded /\ Len(items) > 0 THEN Some(items) ELSE stored
           /\ offlineQueue' = flushed.offlineQueue
           /\ collection' = flushed.collection
           /\ syncStatus' = flushed.syncStatus
  /\ activeListeners' = IF Includes(afterLoad, "startRealtimeListeners")
                        THEN startRealtimeListeners(currentUserId)
                        ELSE activeListeners
  /\ loading' = FALSE
  /\ afterLoad' = <<>>
  /\ thrown' = FALSE
  /\ op' = "loadAllData"
  /\ UNCHANGED <<events, results, cloud, currentUserId, isOnline, debounceTimers>>
  /\ SyncUnchanged

\* the timer of "events" fires: saveCollection with the items it was set with
DebounceFires ==
  /\ IsDefined(debounceTimers)
  /\ \E commits \in BOOLEAN :
       LET saved == saveCollection(currentUserId, collection, debounceTimers[1], commits)
       IN  /\ collection' = saved.collection
           /\ syncStatus' = IF saved.resolved THEN "synced" ELSE "error"
  /\ debounceTimers' = Undefined
  /\ thrown' = FALSE
  /\ op' = "saveCollection"
  /\ UNCHANGED <<events, results, stored, cloud, currentUserId, isOnline,
                 activeListeners, offlineQueue, loading, afterLoad>>
  /\ SyncUnchanged

\* window "offline"
GoOffline ==
  /\ isOnline
  /\ isOnline' = FALSE
  /\ syncStatus' = "offline"
  /\ thrown' = FALSE
  /\ op' = "offline"
  /\ UNCHANGED <<events, results, stored, cloud, currentUserId, activeListeners,
                 debounceTimers, offlineQueue, loading, afterLoad, collection>>
  /\ SyncUnchanged

\* window "online": the queue is flushed
GoOnline ==
  /\ ~isOnline
  /\ isOnline' = TRUE
  /\ \E commits \in BOOLEAN :
       LET flushed == flushOfflineQueue(currentUserId, TRUE, offlineQueue, collection,
                                        syncStatus, commits)
       IN  /\ offlineQueue' = flushed.offlineQueue
           /\ collection' = flushed.collection
           /\ syncStatus' = flushed.syncStatus
  /\ thrown' = FALSE
  /\ op' = "online"
  /\ UNCHANGED <<events, results, stored, cloud, currentUserId, activeListeners,
                 debounceTimers, loading, afterLoad>>
  /\ SyncUnchanged

SyncNext ==
  \/ LocalAdd \/ LocalUpdate \/ LocalDelete
  \/ AuthSignedIn \/ AuthSignedOut \/ LoadAllDataSettles
  \/ DebounceFires \/ GoOffline \/ GoOnline

\* a pending promise settles and a set timer fires
SyncSpec ==
  /\ SyncInit /\ [][SyncNext]_vars
  /\ WF_vars(LoadAllDataSettles) /\ WF_vars(DebounceFires)

(***************************************************************************)
(* Properties.                                                             *)
(***************************************************************************)
\* the parent has no rule, or one with frequency never
NoRecurrenceNever ==
  ~IsDefined(parentEvent.recurrence) \/ parentEvent.recurrence[1].frequency = "never"

\* generateInstances has returned a list for a rule that repeats
Returned ==
  /\ pc = "done" /\ op = "generateInstances"
  /\ IsDefined(parentEvent.recurrence)
  /\ parentEvent.recurrence[1].frequency # "never"

TheRule == parentEvent.recurrence[1]

\* the ordinal an instance id ends with
OrdinalOf(inst) ==
  ParseInt(Some(SubSeq(inst.id, Len(inst.parentId) + Len(InstanceInfix) + 1, Len(inst.id))))
StartsOf(insts) == { insts[i].start : i \in 1..Len(insts) }
Min(a, b) == IF a < b THEN a ELSE b

\* the occurrence k periods of n months after start: same time of day, day
\* of month min(D, last day of that month)
MonthlyOccurrence(start, n, k) ==
  LET mon == getMonth(start) + k * n
      y   == getFullYear(start) + mon \div 12
      m   == mon % 12
  IN  MakeLocal(y, m, Min(getDate(start), DaysInMonth(y, m + 1)), TimeOfDay(start))

\* C1: a monthly rule with interval N yields exactly the occurrences in every
\* N-th calendar month after the start month, each on day min(D, last day of
\* the month): over a window that starts at or before the parent's start, the
\* returned starts are the MonthlyOccurrence values up to rangeEnd.
C1_MonthlyEveryNthMonthClamped ==
  ( /\ Returned
    /\ TheRule.frequency = "monthly" /\ TheRule.endCondition = "never"
    /\ startRange <= parentEvent.start )
  => StartsOf(instances) =
       { t \in { MonthlyOccurrence(parentEvent.start, TheRule.interval[1], k) :
                   k \in 0..(WindowDays \div 28 + 1) } : t <= endRange }

\* the date the walk of generateInstances reaches k steps after cur (the
\* steps are taken in two halves, the first one computed before the second
\* starts, to keep the evaluation shallow)
RECURSIVE Walk(_, _, _)
Walk(cur, parent, k) ==
  IF k = 0 THEN cur
  ELSE IF k = 1 THEN getNextDate(cur, parent.recurrence[1], parent.start)
  ELSE LET mid == Walk(cur, parent, k \div 2)
       IN  IF mid \in Int THEN Walk(mid, parent, k - k \div 2) ELSE NaN

\* the k-th date the walk visits, the parent's start being the 0-th
Candidate(parent, k) == Walk(parent.start, parent, k)

CountedRule ==
  /\ Returned
  /\ TheRule.endCondition = "after" /\ TruthyNum(TheRule.endCount)
  /\ startRange <= parentEvent.start

\* C2 (as claimed): a rule that ends after n occurrences yields exactly n
\* instances over a window that starts at or before the parent's start and
\* reaches past the n-th date of the walk, whatever the frequency and weekday set.
C2_ExactlyEndCountInstances ==
  (CountedRule /\ Candidate(parentEvent, TheRule.endCount[1]) <= endRange)
  => Len(instances) = TheRule.endCount[1]

\* the rule steps forward: interval is missing or a positive number
PositiveInterval(r) == ~TruthyNum(r.interval) \/ r.interval[1] >= 1

\* C2 (amended): the same for a rule with a positive interval and n up to the
\* cap of 1000, provided the start itself passes the weekday filter (a start
\* the filter rejects still uses up one of the n counts).
C2_ExactlyEndCountWhenStartMatches ==
  ( /\ CountedRule
    /\ PositiveInterval(TheRule)
    /\ TheRule.endCount[1] <= maxInstances
    /\ DayMatches(parentEvent.start, TheRule)
    /\ Candidate(parentEvent, TheRule.endCount[1] - 1) <= endRange )
  => Len(instances) = TheRule.endCount[1]

\* a weekly rule with an explicit weekday set has returned its MaxCount instances
C2_Witness ==
  /\ CountedRule
  /\ TheRule.frequency = "weekly" /\ IsDefined(TheRule.daysOfWeek)
  /\ TheRule.endCount[1] = MaxCount
  /\ Len(instances) = MaxCount
  /\ endRange > instances[MaxCount].start + MinutesPerDay

\* rules that use only supported fields
Supported(r) ==
  /\ r.frequency \in {"daily", "weekly", "monthly", "yearly"}
  /\ IsDefined(r.interval) /\ r.interval[1] >= 1
  /\ IsDefined(r.daysOfWeek) => r.frequency = "weekly"
  /\ \/ r.endCondition = "never"
     \/ r.endCondition = "after" /\ TruthyNum(r.endCount)
     \/ r.endCondition = "on" /\ TruthyStr(r.endDate)

\* a missing weekday list and an empty one are the same weekday set
DaysOf(r) == IF IsDefined(r.daysOfWeek) THEN r.daysOfWeek[1] ELSE <<>>

\* same frequency, interval, weekday set, end condition and end value
Equivalent(a, b) ==
  /\ a.frequency = b.frequency
  /\ a.interval = b.interval
  /\ DaysOf(a) = DaysOf(b)
  /\ a.endCondition = b.endCondition
  /\ a.endCondition = "after" => a.endCount = b.endCount
  /\ a.endCondition = "on" => a.endDate = b.endDate

RoundTripDone ==
  /\ pc = "done" /\ op = "roundTrip"
  /\ IsDefined(rule) /\ Supported(rule[1])

\* C3: fromRRule(toRRule(rule)) is equivalent to rule for every rule that uses
\* only supported fields.
C3_RoundTripEquivalent ==
  RoundTripDone => (~thrown /\ Equivalent(rule[1], rec))

\* the string has a part whose key (the text before its first "=") is key
HasKey(str, key) ==
  \E i \in 1..Len(Split(str, ";")) : Split(Split(str, ";")[i], "=")[1] = key

\* C4: fromRRule of a non-empty string without a FREQ part returns a rule
\* whose frequency is daily.
C4_MissingFreqIsDaily ==
  ( /\ pc = "done" /\ op = "fromRRule" /\ ~thrown
    /\ Len(rrule) > 0 /\ ~HasKey(rrule, <<"F", "R", "E", "Q">>) )
  => rec.frequency = "daily"

\* C5: fromRRule returns a rule for every string; it never raises.
C5_FromRRuleNeverThrows ==
  (pc = "done" /\ op \in {"fromRRule", "roundTrip"}) => ~thrown

\* C6: a daily rule that never ends yields at most 1000 instances, however
\* large the window.
C6_DailyNeverAtMostCap ==
  ( /\ op = "generateInstances" /\ IsDefined(parentEvent.recurrence)
    /\ TheRule.frequency = "daily" /\ TheRule.endCondition = "never" )
  => Len(instances) <= maxInstances

\* a daily never-ending rule has returned its 1000 instances from a window
\* that reaches past them
C6_Witness ==
  /\ Returned
  /\ TheRule.frequency = "daily" /\ TheRule.endCondition = "never"
  /\ Len(instances) = maxInstances
  /\ current <= endRange

\* C7: a parent whose recurrence is missing or has frequency never yields the
\* empty list, whatever the window and the other fields of the rule; the loop
\* is never entered.
C7_NeverYieldsNothing ==
  (op = "generateInstances" /\ NoRecurrenceNever)
  => (instances = <<>> /\ pc # "loop")

\* a rule with frequency never and the other fields set has returned, the
\* window holding the parent's start
C7_Witness ==
  /\ pc = "done" /\ op = "generateInstances"
  /\ IsDefined(parentEvent.recurrence)
  /\ TheRule.frequency = "never"
  /\ TheRule.interval = Some(MaxInterval) /\ IsDefined(TheRule.daysOfWeek)
  /\ TheRule.endCondition = "after"
  /\ startRange <= parentEvent.start /\ parentEvent.start <= endRange
  /\ instances = <<>>

\* a never-ending weekly rule on Monday and Wednesday, every week, whose
\* parent starts on a Monday, queried from the parent's day on
MonWedRule ==
  /\ Returned
  /\ TheRule.frequency = "weekly" /\ TheRule.interval = Some(1)
  /\ TheRule.daysOfWeek = Some(<<1, 3>>)
  /\ TheRule.endCondition = "never"
  /\ getDay(parentEvent.start) = 1
  /\ startRange >= RangeStartAt(DayOf(parentEvent.start))

\* the instances lie on Mondays and Wednesdays only, no two at the same time,
\* and every Monday and Wednesday inside the window has its instance
OnePerMondayAndWednesday ==
  /\ \A i \in 1..Len(instances) : getDay(instances[i].start) \in {1, 3}
  /\ \A i, j \in 1..Len(instances) : instances[i].start = instances[j].start => i = j
  /\ \A d \in DayOf(startRange)..DayOf(endRange) :
       LET t == d * MinutesPerDay + TimeOfDay(parentEvent.start)
       IN  (getDay(t) \in {1, 3} /\ startRange <= t /\ t <= endRange)
             => t \in StartsOf(instances)

\* C8 (as claimed): for every window at or after the start, exactly one
\* instance for each Monday and Wednesday inside the window, none on other days.
C8_OnePerMondayAndWednesday == MonWedRule => OnePerMondayAndWednesday

\* C8 (amended): the same for every window that ends before the 1001st date of
\* the walk from the parent's start, where the occurrence cap cuts the walk.
C8_OnePerMondayAndWednesdayBelowCap ==
  (MonWedRule /\ endRange < Candidate(parentEvent, maxInstances))
  => OnePerMondayAndWednesday

\* a window that starts after the parent's start holds a Wednesday, a Monday
\* and a Wednesday, and three instances were returned
C8_Witness ==
  /\ MonWedRule
  /\ startRange > parentEvent.start
  /\ Len(instances) = 3
  /\ getDay(instances[1].start) = 3 /\ getDay(instances[2].start) = 1

\* the calendar day a date-only string names
DayNamed(s) == DayOf(NewDateFromString(s, 0))

StartInWindow ==
  /\ Returned
  /\ startRange <= parentEvent.start /\ parentEvent.start <= endRange

\* the result holds an instance with ordinal 0 that starts at the parent's
\* start, and no ordinal reaches endCount
OriginalIsInstanceZero ==
  /\ \E i \in 1..Len(instances) :
       OrdinalOf(instances[i]) = 0 /\ instances[i].start = parentEvent.start
  /\ IsDefined(RecCount(TheRule)) =>
       \A i \in 1..Len(instances) : OrdinalOf(instances[i]) < TheRule.endCount[1]

EndsOnDate ==
  /\ Returned
  /\ TheRule.endCondition = "on" /\ TruthyStr(TheRule.endDate)
  /\ IsDateOnly(TheRule.endDate[1])

\* C10: with endCondition = on and endDate = E no instance starts after the
\* end of day E, and a date of the walk that falls on day E (inside the window,
\* passing the weekday filter) is returned: the end date is inclusive.
C10_EndDateInclusive ==
  EndsOnDate =>
    /\ \A i \in 1..Len(instances) :
         DayOf(instances[i].start) <= DayNamed(TheRule.endDate[1])
    /\ \A k \in 0..MaxEndOffset :
         LET t == Candidate(parentEvent, k)
         IN  ( /\ DayOf(t) = DayNamed(TheRule.endDate[1])
               /\ t <= endRange
               /\ InVisibleRange(t, Duration(parentEvent), startRange)
               /\ DayMatches(t, TheRule) )
             => t \in StartsOf(instances)

\* the ordinals of a returned list are those of the walk: the first instance
\* starts OrdinalOf steps after the parent's start, every other one as many
\* steps after its predecessor as their ordinals differ
OrdinalsFollowWalk(insts, parent) ==
  \A i \in 1..Len(insts) :
    /\ OrdinalOf(insts[i]) \in 0..(maxInstances - 1)
    /\ IF i = 1
       THEN insts[i].start = Walk(parent.start, parent, OrdinalOf(insts[i]))
       ELSE /\ OrdinalOf(insts[i]) > OrdinalOf(insts[i - 1])
            /\ insts[i].start =
                 Walk(insts[i - 1].start, parent,
                      OrdinalOf(insts[i]) - OrdinalOf(insts[i - 1]))

\* C11: every instance generateInstances returns has the parent's id as
\* parentId, the id parentId + "-instance-" + its ordinal in the walk, the
\* parent's title, location, description, color and reminders, and, when the
\* parent ends after it starts, the parent's duration.
C11_InstanceFieldsFromParent ==
  Returned =>
    /\ OrdinalsFollowWalk(instances, parentEvent)
    /\ \A i \in 1..Len(instances) :
         LET inst == instances[i]
         IN  /\ inst.parentId = parentEvent.id
             /\ inst.id = inst.parentId \o InstanceInfix \o NumberToString(OrdinalOf(inst))
             /\ inst.title = parentEvent.title
             /\ inst.location = parentEvent.location
             /\ inst.description = parentEvent.description
             /\ inst.color = parentEvent.color
             /\ inst.reminders = parentEvent.reminders
             /\ ( IsDefined(parentEvent.end) /\ parentEvent.end[1] > parentEvent.start )
                  => ( /\ IsDefined(inst.end)
                       /\ inst.end[1] - inst.start = parentEvent.end[1] - parentEvent.start )

\* a returned list of several instances, the first one past the dates the
\* window leaves out, of a parent with a duration and filled-in display fields
C11_Witness ==
  /\ Returned
  /\ Len(instances) >= 2
  /\ OrdinalOf(instances[1]) > 0
  /\ IsDefined(parentEvent.end)
  /\ parentEvent.location # <<>> /\ parentEvent.reminders # <<>>

\* toRRule has returned rrule for rule
Serialized == pc = "serialized" /\ op = "toRRule"

\* the text of a part before its first "=", and the text after it
KeyOf(part) ==
  LET i == IndexFrom(part, "=", 1)
  IN  IF i = 0 THEN part ELSE SubSeq(part, 1, i - 1)
ValueOf(part) ==
  LET i == IndexFrom(part, "=", 1)
  IN  IF i = 0 THEN <<>> ELSE SubSeq(part, i + 1, Len(part))

KeyFreq == <<"F", "R", "E", "Q">>
KeyInterval == <<"I", "N", "T", "E", "R", "V", "A", "L">>
KeyByDay == <<"B", "Y", "D", "A", "Y">>
KeyCount == <<"C", "O", "U", "N", "T">>
KeyUntil == <<"U", "N", "T", "I", "L">>

\* YYYYMMDDTHHmmss
IsICSDateTime(v) ==
  /\ Len(v) = 15
  /\ \A i \in (1..8) \cup (10..15) : IsDigit(v[i])
  /\ v[9] = "T"

\* the value of each part of str says what the rule says
PartValuesMatch(str, r) ==
  \A i \in 1..Len(Split(str, ";")) :
    LET part == Split(str, ";")[i]
        v    == ValueOf(part)
    IN  /\ KeyOf(part) = KeyFreq =>
             v = CASE r.frequency = "weekly" -> <<"W", "E", "E", "K", "L", "Y">>
                   [] r.frequency = "monthly" -> <<"M", "O", "N", "T", "H", "L", "Y">>
                   [] r.frequency = "yearly" -> <<"Y", "E", "A", "R", "L", "Y">>
                   [] OTHER -> <<"D", "A", "I", "L", "Y">>
        /\ KeyOf(part) = KeyInterval => ParseInt(Some(v)) = r.interval[1]
        /\ KeyOf(part) = KeyByDay =>
             /\ \A j \in 1..Len(Split(v, ",")) : Len(Split(v, ",")[j]) = 2
             /\ DayNumbers(Split(v, ",")) = r.daysOfWeek[1]
        /\ KeyOf(part) = KeyCount => ParseInt(Some(v)) = r.endCount[1]
        /\ KeyOf(part) = KeyUntil => IsICSDateTime(v)

\* the keys of the parts of str, in order
KeysOf(str) == [ i \in 1..Len(Split(str, ";")) |-> KeyOf(Split(str, ";")[i]) ]

HasInterval(r) == IsDefined(r.interval) /\ r.interval[1] # NaN /\ r.interval[1] > 1
HasWeekdays(r) ==
  r.frequency = "weekly" /\ IsDefined(r.daysOfWeek) /\ Len(r.daysOfWeek[1]) > 0

\* FREQ, then INTERVAL, BYDAY and the end key, each when it is due
KeysInOrder(r, withCount, withUntil) ==
  <<KeyFreq>>
  \o (IF HasInterval(r) THEN <<KeyInterval>> ELSE <<>>)
  \o (IF HasWeekdays(r) THEN <<KeyByDay>> ELSE <<>>)
  \o (IF withCount THEN <<KeyCount>> ELSE IF withUntil THEN <<KeyUntil>> ELSE <<>>)

Formatted == pc = "done" /\ op = "formatRule"

\* day, week, month, year
UnitOf(f) ==
  CASE f = "daily" -> <<"d", "a", "y">> [] f = "weekly" -> <<"w", "e", "e", "k">>
    [] f = "monthly" -> <<"m", "o", "n", "t", "h">> [] f = "yearly" -> <<"y", "e", "a", "r">>

\* "Every <unit>" for interval 1, "Every <n> <unit>s" for a larger one, then
\* " on <Mon, Wed>" for a weekly rule with weekdays
HeadText(r) ==
  ( IF r.interval[1] = 1 THEN <<"E", "v", "e", "r", "y", " ">> \o UnitOf(r.frequency)
    ELSE <<"E", "v", "e", "r", "y", " ">> \o NumberToString(r.interval[1]) \o <<" ">>
         \o UnitOf(r.frequency) \o <<"s">> )
  \o ( IF HasWeekdays(r)
       THEN <<" ", "o", "n", " ">>
            \o Join([i \in 1..Len(r.daysOfWeek[1]) |->
                       <<<<"S", "u", "n">>, <<"M", "o", "n">>, <<"T", "u", "e">>, <<"W", "e", "d">>,
                         <<"T", "h", "u">>, <<"F", "r", "i">>, <<"S", "a", "t">>>>[r.daysOfWeek[1][i] + 1]],
                    <<",", " ">>)
       ELSE <<>> )

CountText(r) == <<",", " ">> \o NumberToString(r.endCount[1]) \o <<" ", "t", "i", "m", "e", "s">>
UntilText(r) == <<",", " ", "u", "n", "t", "i", "l", " ">> \o r.endDate[1]

\* C13: formatRule returns "Every <unit>" when interval = 1 and
\* "Every <n> <unit>s" when interval > 1, then " on " and the three-letter day
\* names for a weekly rule with weekdays, then ", <n> times" for endCondition
\* = after or ", until <date>" for endCondition = on; the empty string for
\* frequency never.
C13_FormatRuleText ==
  ( Formatted /\ IsDefined(rule) /\ IsDefined(rule[1].interval) /\ rule[1].interval[1] >= 1 ) =>
    IF rule[1].frequency = "never" THEN formatted = <<>>
    ELSE formatted =
           HeadText(rule[1])
           \o ( IF rule[1].endCondition = "after" THEN CountText(rule[1])
                ELSE IF rule[1].endCondition = "on" THEN UntilText(rule[1])
                ELSE <<>> )

\* C13 as the code has it: the end is written when its value is there,
\* ", <n> times" for endCondition = after with an endCount other than 0,
\* ", until <date>" for endCondition = on with an endDate; an end condition
\* that lacks its value adds nothing.
C13_FormatRuleTextWhenEndHasValue ==
  ( Formatted /\ IsDefined(rule) /\ IsDefined(rule[1].interval) /\ rule[1].interval[1] >= 1 ) =>
    IF rule[1].frequency = "never" THEN formatted = <<>>
    ELSE formatted =
           HeadText(rule[1])
           \o ( IF rule[1].endCondition = "after" /\ TruthyNum(rule[1].endCount)
                THEN CountText(rule[1])
                ELSE IF rule[1].endCondition = "on" /\ TruthyStr(rule[1].endDate)
                THEN UntilText(rule[1])
                ELSE <<>> )

\* a weekly rule on weekdays with interval 1 and a count has been formatted
C13_Witness ==
  /\ Formatted /\ IsDefined(rule)
  /\ rule[1].frequency = "weekly" /\ rule[1].interval = Some(1) /\ HasWeekdays(rule[1])
  /\ rule[1].endCondition = "after"
  /\ Len(formatted) > Len(HeadText(rule[1]))

\* exportToICS has returned lines for events
Exported == pc = "done" /\ op = "exportToICS"

StartsWith(line, prefix) ==
  Len(line) >= Len(prefix) /\ SubSeq(line, 1, Len(prefix)) = prefix

\* the event repeats: it has a rule whose frequency is not never
Repeats(ev) == IsDefined(ev.recurrence) /\ ev.recurrence[1].frequency # "never"

NotAnInstance(ev) == ~IsRecurringInstance(ev)

\* where the VEVENT blocks of lines begin and end, and its RRULE lines
BlockBegins == { i \in 1..Len(lines) : lines[i] = <<"B", "E", "G", "I", "N", ":", "V", "E", "V", "E", "N", "T">> }
BlockEnds == { i \in 1..Len(lines) : lines[i] = <<"E", "N", "D", ":", "V", "E", "V", "E", "N", "T">> }
RRuleLines == { i \in 1..Len(lines) : StartsWith(lines[i], <<"R", "R", "U", "L", "E", ":">>) }

\* the k-th smallest member of a set of numbers
Nth(S, k) == CHOOSE b \in S : Cardinality({ x \in S : x < b }) = k - 1

\* C14: exportToICS writes one VEVENT block per event that is not flagged
\* isRecurringInstance, none for a flagged one, and inside the block of an
\* event exactly one RRULE: line when its recurrence.frequency is not never,
\* no RRULE: line when it is never or the rule is missing.
C14_OneRRulePerRecurringEvent ==
  Exported =>
    LET evs == SelectSeq(events, NotAnInstance)
    IN  /\ Cardinality(BlockBegins) = Len(evs)
        /\ Cardinality(BlockEnds) = Len(evs)
        /\ \A k \in 1..Len(evs) :
             LET b == Nth(BlockBegins, k)
                 e == Nth(BlockEnds, k)
             IN  /\ b < e
                 /\ k < Len(evs) => e < Nth(BlockBegins, k + 1)
                 /\ lines[b + 1] = <<"U", "I", "D", ":">> \o evs[k].id
                 /\ Cardinality(RRuleLines \cap (b..e)) = IF Repeats(evs[k]) THEN 1 ELSE 0
        /\ \A i \in RRuleLines : \E k \in 1..Len(evs) :
             Nth(BlockBegins, k) < i /\ i < Nth(BlockEnds, k)

\* an export of a repeating event, one that does not repeat and an instance
C14_Witness ==
  /\ Exported
  /\ Len(events) = 3
  /\ \E i, j, k \in 1..3 :
       /\ NotAnInstance(events[i]) /\ Repeats(events[i])
       /\ NotAnInstance(events[j]) /\ ~Repeats(events[j])
       /\ IsRecurringInstance(events[k])
  /\ Cardinality(RRuleLines) = 1

\* eventsOnDate has returned results for the day target
Listed == pc = "done" /\ op = "eventsOnDate"

\* the stored event a listed item is an occurrence of
OwnerOf(item) == IF IsRecurringInstance(item) THEN item.parentId ELSE item.id

\* C15: eventsOnDate lists each occurrence of a recurring event at most once:
\* no two listed items are occurrences of the same event at the same time, and
\* on the day a repeating event starts the event itself is listed and none of
\* its generated instances that starts at the same time.
C15_EachOccurrenceOnce ==
  Listed =>
    /\ \A i, j \in 1..Len(results) :
         ( i # j /\ OwnerOf(results[i]) = OwnerOf(results[j]) )
           => results[i].start # results[j].start
    /\ \A k \in 1..Len(events) :
         ( /\ NotAnInstance(events[k]) /\ Repeats(events[k])
           /\ DayOf(events[k].start) = target )
         => /\ \E i \in 1..Len(results) : results[i] = events[k]
            /\ \A i \in 1..Len(results) :
                 ( IsRecurringInstance(results[i]) /\ results[i].parentId = events[k].id )
                   => results[i].start # events[k].start

\* the start day of a repeating event for which generateInstances returns
\* the occurrence at the start time: the event is listed alone
C15_Witness ==
  /\ Listed
  /\ Len(events) = 1
  /\ NotAnInstance(events[1]) /\ Repeats(events[1])
  /\ DayOf(events[1].start) = target
  /\ \E i \in 1..Len(generateInstances(events[1], RangeStartAt(target),
                                         RangeEndAt(target), tz)) :
       generateInstances(events[1], RangeStartAt(target),
                         RangeEndAt(target), tz)[i].start = events[1].start
  /\ results = <<events[1]>>

\* the instance the last modal handler found in the modal
HandledInstance == IsDefined(handled) /\ IsRecurringInstance(handled[1].shown)

\* C16: when the modal shows a recurring instance, edit opens the form on the
\* parent event and leaves state.events alone; delete removes the parent (the
\* event with the instance's parentId) and nothing else once the user has
\* confirmed, and changes nothing when the user declines. state.events never
\* holds an instance and the form is only ever open on a stored event.
C16_InstanceRedirectsToParent ==
  [][ /\ ( op' = "editCurrentEvent" /\ HandledInstance' ) =>
           /\ FindById(events, handled'[1].shown.parentId) # 0
           /\ formOpen'
           /\ editingEventId' = Some(handled'[1].shown.parentId)
           /\ events' = events
      /\ ( op' = "deleteCurrentEvent" /\ HandledInstance' ) =>
           /\ FindById(events, handled'[1].shown.parentId) # 0
           /\ handled'[1].answer \in {"confirmed", "declined"}
           /\ handled'[1].answer = "confirmed" =>
                /\ FindById(events', handled'[1].shown.parentId) = 0
                /\ Len(events') = Len(events) - 1
                /\ \A i \in 1..Len(events) :
                     events[i].id # handled'[1].shown.parentId
                       => \E j \in 1..Len(events') : events'[j] = events[i]
           /\ handled'[1].answer = "declined" =>
                events' = events /\ currentModalEvent' = currentModalEvent
      /\ \A i \in 1..Len(events') : ~IsRecurringInstance(events'[i])
      /\ IsDefined(editingEventId') => FindById(events', editingEventId'[1]) # 0
    ]_vars

\* the user has confirmed the deletion of an instance shown in the modal, and
\* its parent is gone while another event is still there
C16_Witness ==
  /\ op = "deleteCurrentEvent" /\ HandledInstance
  /\ handled[1].answer = "confirmed"
  /\ FindById(events, handled[1].shown.parentId) = 0
  /\ Len(events) > 0

\* C17: whatever the calendar has done (add, edit, delete, import, render),
\* no object flagged isRecurringInstance is in the array stored under
\* calendar_events, in the array handed to CloudSync, or in state.events.
C17_InstancesNeverStored ==
  /\ IsDefined(stored) => \A i \in 1..Len(stored[1]) : ~IsRecurringInstance(stored[1][i])
  /\ IsDefined(cloud) => \A i \in 1..Len(cloud[1]) : ~IsRecurringInstance(cloud[1][i])
  /\ \A i \in 1..Len(events) : ~IsRecurringInstance(events[i])

\* events have been persisted and handed to the cloud, and the day on show
\* lists a generated instance
C17_Witness ==
  /\ op \in {"saveEventFromForm", "importICS"}
  /\ IsDefined(stored) /\ Len(stored[1]) > 0
  /\ cloud = stored
  /\ \E i \in 1..Len(results) : IsRecurringInstance(results[i])

WeekOffset(inst) == (inst.start - parentEvent.start) \div (7 * MinutesPerDay)

\* C19: for a weekly rule with interval N > 1 and a non-empty daysOfWeek,
\* every returned instance lies in a week whose offset from the parent's
\* start is a multiple of N.
C19_WeeklyDaysEveryNthWeek ==
  ( /\ Returned
    /\ TheRule.frequency = "weekly"
    /\ TruthyNum(TheRule.interval) /\ TheRule.interval[1] > 1
    /\ IsDefined(TheRule.daysOfWeek) /\ Len(TheRule.daysOfWeek[1]) > 0 )
  => \A i \in 1..Len(instances) : WeekOffset(instances[i]) % TheRule.interval[1] = 0

\* the same parent with interval 1 in its rule
WithIntervalOne(parent) ==
  [parent EXCEPT !.recurrence = Some([parent.recurrence[1] EXCEPT !.interval = Some(1)])]

NonPositiveInterval(r) ==
  IsDefined(r.interval) /\ r.interval[1] # NaN /\ r.interval[1] <= 0

\* C20: a rule whose interval is zero or negative yields the instance list
\* of the same rule with interval 1, for every frequency and window.
C20_NonPositiveIntervalAsOne ==
  (Returned /\ NonPositiveInterval(TheRule))
  => instances = generateInstances(WithIntervalOne(parentEvent), startRange, endRange, tz)

\* the half of C20 the code keeps: interval 0 steps as interval 1, and so
\* does a negative interval of a weekly rule with a weekday set
ZeroIntervalAsOne ==
  ( /\ Returned /\ NonPositiveInterval(TheRule)
    /\ \/ TheRule.interval[1] = 0
       \/ TheRule.frequency = "weekly" /\ IsDefined(TheRule.daysOfWeek) )
  => instances = generateInstances(WithIntervalOne(parentEvent), startRange, endRange, tz)

\* C21: generateInstances terminates for every rule and window, malformed
\* rules included: the call reaches its return, its loop never runs more
\* than 1000 iterations, nothing is raised, and what it returns is what the
\* loop gathered (never more instances than iterations).
C21_GenerateInstancesTerminates ==
  /\ <>(pc = "done")
  /\ [](count <= maxInstances /\ ~thrown /\ Len(instances) <= count)

\* a rule that steps backwards in time has been cut off at the limit
C21_Witness ==
  /\ pc = "done" /\ op = "generateInstances"
  /\ count = maxInstances
  /\ TheRule.interval = Some(0 - 1)
  /\ current < parentEvent.start

\* the first n dates the walk of generateInstances visits, from cur on
RECURSIVE CandidatesFrom(_, _, _)
CandidatesFrom(cur, parent, n) ==
  IF n = 0 THEN <<>>
  ELSE <<cur>> \o CandidatesFrom(getNextDate(cur, parent.recurrence[1], parent.start),
                                parent, n - 1)

\* a date on a weekday the rule lists, or any date when it lists none
OnListedDay(t) ==
  (TheRule.frequency = "weekly" /\ IsDefined(TheRule.daysOfWeek)
     /\ Len(TheRule.daysOfWeek[1]) > 0)
  => \E j \in 1..Len(TheRule.daysOfWeek[1]) : TheRule.daysOfWeek[1][j] = getDay(t)

\* C22: every returned instance starts at or before rangeEnd and either
\* starts at or after rangeStart or, having a duration, ends at or after
\* rangeStart; and every date the walk handled that meets this condition and
\* the weekday filter is the start of a returned instance (compared on the
\* calls that stay below the safety limit).
C22_InstancesAreTheOverlappingCandidates ==
  (Returned /\ count < maxInstances)
  => LET walked == CandidatesFrom(parentEvent.start, parentEvent, count)
     IN  /\ \A i \in 1..Len(instances) :
              /\ instances[i].start <= endRange
              /\ \/ instances[i].start >= startRange
                 \/ IsDefined(instances[i].end) /\ instances[i].end[1] >= startRange
         /\ \A k \in 1..count :
              ( /\ walked[k] <= endRange
                /\ \/ walked[k] >= startRange
                   \/ IsDefined(parentEvent.end)
                        /\ parentEvent.end[1] > parentEvent.start
                        /\ walked[k] + (parentEvent.end[1] - parentEvent.start) >= startRange
                /\ OnListedDay(walked[k]) )
              => \E i \in 1..Len(instances) : instances[i].start = walked[k]

\* an occurrence that began before the window and ends inside it is returned
C22_Witness ==
  /\ Returned
  /\ Len(instances) > 1
  /\ instances[1].start < startRange
  /\ IsDefined(instances[1].end) /\ instances[1].end[1] >= startRange
  /\ instances[1].start # parentEvent.start

YearlyRule ==
  /\ Returned
  /\ TheRule.frequency = "yearly"
  /\ TruthyNum(TheRule.interval) /\ TheRule.interval[1] >= 1

\* consecutive instances are N calendar years apart, each on the month and
\* day of the month of the parent's start
YearsApartSameDay ==
  /\ \A i \in 1..Len(instances) :
       /\ getMonth(instances[i].start) = getMonth(parentEvent.start)
       /\ getDate(instances[i].start) = getDate(parentEvent.start)
  /\ \A i \in 1..(Len(instances) - 1) :
       getFullYear(instances[i + 1].start) - getFullYear(instances[i].start)
         = TheRule.interval[1]

\* C23: the occurrences of a yearly rule with interval N are exactly N
\* calendar years apart and keep the month and day of the month of the
\* parent's start, a parent that starts on Feb 29 included.
C23_YearlyKeepsMonthAndDay == YearlyRule => YearsApartSameDay

\* the half of C23 the code keeps: parents that do not start on Feb 29
YearlyKeepsMonthAndDayUnlessFeb29 ==
  ( /\ YearlyRule
    /\ ~(getMonth(parentEvent.start) = 1 /\ getDate(parentEvent.start) = 29) )
  => YearsApartSameDay

\* several years of such a parent have been returned
YearlyUnlessFeb29Reached ==
  /\ YearlyRule
  /\ ~(getMonth(parentEvent.start) = 1 /\ getDate(parentEvent.start) = 29)
  /\ Len(instances) > 2

\* a daily rule with interval N >= 1 that ends after n occurrences has
\* returned, for a window that covers start .. start + (n - 1) * N days
DailyCounted ==
  /\ Returned
  /\ TheRule.frequency = "daily"
  /\ TruthyNum(TheRule.interval) /\ TheRule.interval[1] >= 1
  /\ TheRule.endCondition = "after"
  /\ TruthyNum(TheRule.endCount) /\ TheRule.endCount[1] >= 1
  /\ startRange <= parentEvent.start
  /\ parentEvent.start
       + (TheRule.endCount[1] - 1) * TheRule.interval[1] * MinutesPerDay <= endRange

\* exactly the n dates start + k * N days, at the parent's time of day
TheCountedDays ==
  /\ Len(instances) = TheRule.endCount[1]
  /\ \A k \in 1..TheRule.endCount[1] :
       instances[k].start
         = parentEvent.start + (k - 1) * TheRule.interval[1] * MinutesPerDay

\* C24 (as claimed): a daily rule with interval N that ends after n
\* occurrences yields, over a window covering them, exactly the n dates
\* start + k * N days for k = 0..n-1 and nothing on a later day.
C24_DailyCountedDates == DailyCounted => TheCountedDays

\* C24 (amended): the same for n up to the limit of 1000 iterations.
C24_DailyCountedDatesBelowCap ==
  (DailyCounted /\ TheRule.endCount[1] <= maxInstances) => TheCountedDays

\* every second day, MaxCount times, in a window that goes on after the last
C24_Witness ==
  /\ DailyCounted
  /\ TheRule.interval[1] = MaxInterval /\ TheRule.endCount[1] = MaxCount
  /\ Len(instances) = MaxCount
  /\ endRange > instances[MaxCount].start + MaxInterval * MinutesPerDay

\* the five keys fromRRule knows
KnownKeys ==
  { <<"F", "R", "E", "Q">>, <<"I", "N", "T", "E", "R", "V", "A", "L">>,
    <<"B", "Y", "D", "A", "Y">>, <<"C", "O", "U", "N", "T">>, <<"U", "N", "T", "I", "L">> }

\* the input with every part of another key removed
KnownPartsOnly(s) ==
  Join(SelectSeq(Split(s, ";"), LAMBDA part : KeyOf(part) \in KnownKeys), <<";">>)

WeekdayCodes ==
  << <<"S", "U">>, <<"M", "O">>, <<"T", "U">>, <<"W", "E">>, <<"T", "H">>, <<"F", "R">>,
     <<"S", "A">> >>

\* the weekday numbers of the tokens that are weekday codes, in input order
RECURSIVE NumbersOfCodes(_)
NumbersOfCodes(tokens) ==
  IF Len(tokens) = 0 THEN <<>>
  ELSE ( IF \E n \in 1..7 : WeekdayCodes[n] = Trim(tokens[1])
         THEN <<(CHOOSE n \in 1..7 : WeekdayCodes[n] = Trim(tokens[1])) - 1>>
         ELSE <<>> )
       \o NumbersOfCodes(Tail(tokens))

\* the BYDAY parts of the input that carry a value, in input order
ByDayParts(s) ==
  SelectSeq(Split(s, ";"),
            LAMBDA part : KeyOf(part) = <<"B", "Y", "D", "A", "Y">> /\ Len(Split(part, "=")) >= 2)

Parsed == pc = "done" /\ op = "fromRRule" /\ ~thrown

DependsOnKnownPartsOnly == rec = fromRRule(KnownPartsOnly(rrule)).rec

DaysAreTheCodes ==
  Len(ByDayParts(rrule)) > 0
  => rec.daysOfWeek
       = Some(NumbersOfCodes(Split(Split(ByDayParts(rrule)[Len(ByDayParts(rrule))], "=")[2], ",")))

\* C25: what fromRRule returns depends only on the FREQ, INTERVAL, BYDAY,
\* COUNT and UNTIL parts of its input (it returns the same rule for the
\* input with every other part removed), and daysOfWeek holds exactly the
\* numbers of the BYDAY tokens that are weekday codes, in input order.
C25_OnlyKnownPartsCount == Parsed => (DependsOnKnownPartsOnly /\ DaysAreTheCodes)

\* the half of C25 the code keeps: inputs that keep a known part and whose
\* tokens name no inherited member
OnlyKnownPartsCountUnlessInherited ==
  ( /\ Parsed
    /\ Len(KnownPartsOnly(rrule)) > 0
    /\ ~IsDefined(rec.daysOfWeek) \/ \A i \in 1..Len(rec.daysOfWeek[1]) :
                                       rec.daysOfWeek[1][i] # Inherited )
  => (DependsOnKnownPartsOnly /\ DaysAreTheCodes)

\* windows that contain the window of the call: a week more before it,
\* after it, or both
WiderWindows ==
  { <<startRange - 7 * MinutesPerDay, endRange>>,
    <<startRange, endRange + 7 * MinutesPerDay>>,
    <<startRange - 7 * MinutesPerDay, endRange + 7 * MinutesPerDay>> }

\* the inclusion test of the window of the call
InThisWindow(inst) ==
  /\ inst.start <= endRange
  /\ \/ inst.start >= startRange
     \/ IsDefined(inst.end) /\ inst.end[1] >= startRange

\* what the call returned is what each wider window returns, cut down to
\* the window of the call
AgreesWithWiderWindows ==
  \A w \in WiderWindows :
    instances = SelectSeq(generateInstances(parentEvent, w[1], w[2], tz), InThisWindow)

\* the calls compared: those whose walk, in the wider window too, ends by
\* itself before the safety limit
ComparedCall ==
  /\ Returned /\ count < maxInstances
  /\ PositiveInterval(TheRule) \/ IsDefined(RecCount(TheRule))

\* C26: for windows W1 inside W2, the instances returned for W1 are exactly
\* those returned for W2 (same id, same start) that pass W1's inclusion
\* test.
C26_WindowsAgree == ComparedCall => AgreesWithWiderWindows

\* the half of C26 the code keeps: rules that step forward
WindowsAgreeForPositiveInterval ==
  (ComparedCall /\ PositiveInterval(TheRule)) => AgreesWithWiderWindows

\* an occurrence date has the id it has in the window a week wider on
\* both sides
SameIdInWiderWindow ==
  LET wider == generateInstances(parentEvent, startRange - 7 * MinutesPerDay,
                                 endRange + 7 * MinutesPerDay, tz)
  IN  \A i \in 1..Len(instances) :
        \E j \in 1..Len(wider) :
          wider[j].start = instances[i].start /\ wider[j].id = instances[i].id

\* C27: within one result for a rule that steps forward, start times and
\* ordinals strictly increase along the list (so the ids, which end with
\* the ordinal, are pairwise distinct), the ordinal of an instance is its
\* position in the walk from the parent's start, and the same occurrence
\* date has the same id in a wider window.
C27_IdsFollowTheWalk ==
  (Returned /\ PositiveInterval(TheRule))
  => /\ \A i \in 1..(Len(instances) - 1) :
          /\ instances[i].start < instances[i + 1].start
          /\ OrdinalOf(instances[i]) < OrdinalOf(instances[i + 1])
          /\ instances[i].id # instances[i + 1].id
     /\ OrdinalsFollowWalk(instances, parentEvent)
     /\ count < maxInstances => SameIdInWiderWindow

\* a window that starts after the parent's start: the first instance
\* returned is not the first of the walk
C27_Witness ==
  /\ Returned /\ PositiveInterval(TheRule)
  /\ Len(instances) > 1
  /\ OrdinalOf(instances[1]) > 1
  /\ startRange > parentEvent.start

\* the window starts after the 1000th candidate has ended; a walk that steps
\* forward moves at least a day per step, so such a window starts more than
\* 999 days after the parent's start (tested first: it is cheap)
AfterThe1000thCandidate ==
  /\ startRange > parentEvent.start + (maxInstances - 1) * MinutesPerDay
  /\ startRange > Candidate(parentEvent, maxInstances - 1) + Duration(parentEvent)

\* C28: the cap counts every candidate of the walk from the parent's start:
\* the loop never counts beyond 1000, no returned instance has an ordinal
\* of 1000 or more, and a window that lies entirely after the 1000th
\* candidate gets the empty list.
C28_CapCountsEveryCandidate ==
  Returned
  => /\ count <= maxInstances
     /\ \A i \in 1..Len(instances) : OrdinalOf(instances[i]) \in 0..(maxInstances - 1)
     /\ AfterThe1000thCandidate => instances = <<>>

\* a week more than 1000 days after the start of a daily event that never
\* ends: all 1000 counts were used up before the window
C28_Witness ==
  /\ Returned
  /\ TheRule.frequency = "daily" /\ TheRule.endCondition = "never"
  /\ AfterThe1000thCandidate
  /\ count = maxInstances
  /\ instances = <<>>

\* the initial load of a signed-in user has completed
InitialLoadCompleted ==
  /\ IsDefined(currentUserId)
  /\ op = "loadAllData"
  /\ syncStatus = "synced"

\* C29: after the auth state changed to a signed-in user and the initial
\* load has completed, eventually one real-time listener per data type is
\* attached; none is attached while no user is signed in or the load is
\* still pending.
C29_ListenersStartAfterInitialLoad ==
  /\ [](activeListeners # <<>> => (IsDefined(currentUserId) /\ ~loading))
  /\ InitialLoadCompleted ~> (activeListeners = CallbackTypes)

\* what the code does instead: the callback raises on .then before the
\* listeners are asked for, and no listener is ever attached
NoListenerEverAttached ==
  /\ activeListeners = <<>>
  /\ op = "onAuthStateChanged" => thrown

\* the items of the local array, as saved
LocalItems == { ToSave(events)[i] : i \in 1..Len(ToSave(events)) }

\* the items the cloud collection holds
CloudItems == { SnapshotItems(collection)[i] : i \in 1..Len(SnapshotItems(collection)) }

\* a step in which the debounced push of the local array completes, signed
\* in and online
PushCompletes ==
  /\ IsDefined(currentUserId) /\ isOnline
  /\ IsDefined(debounceTimers) /\ debounceTimers[1] = ToSave(events)
  /\ op' = "saveCollection"
  /\ syncStatus' = "synced"

\* C30: when the debounced push that follows local adds, updates and
\* deletes completes, signed in and online, the cloud collection holds
\* exactly the items of the local array.
C30_CloudHoldsTheLocalItems ==
  [][PushCompletes => CloudItems' = LocalItems']_vars

\* what does hold after the push: every local item is in the cloud as it is
\* locally
PushedItemsAreInTheCloud ==
  [][PushCompletes => LocalItems' \subseteq CloudItems']_vars

\* the next load brings a deleted event back: the load has stored an item
\* the calendar no longer holds
DeletedItemComesBack ==
  /\ op = "loadAllData"
  /\ IsDefined(stored)
  /\ \E i \in 1..Len(stored[1]) : FindById(events, stored[1][i].id) = 0

====
